---- MODULE Spec2Model ----
(***************************************************************************)
(* Shade-aware walking router of shady-directions.                         *)
(*                                                                         *)
(* The tree holds three generations of the routing core, all modelled:     *)
(*   "server"  src/server.js                 hand-written binary heap A*   *)
(*   "client"  src/client/src/lib/routing.js heap-js A*                    *)
(*   "lib"     src/src/lib/routing.js        ngraph.path A*, progress      *)
(*                                           callbacks, ShadowSampler      *)
(*                                                                         *)
(* Geometry.  Every node lies on one meridian, node i at latitude i units, *)
(* so the great-circle distance of two nodes is |i - j| units (exact on a  *)
(* meridian).  Lengths are in that unit.                                   *)
(*                                                                         *)
(* Arithmetic.  The code computes in floating point; the model computes    *)
(* the same expressions in exact rationals.  Preferences are k/PrefDen,    *)
(* shade fractions k/ShadeDen, and every time value (edge cost, g, f,      *)
(* heuristic, duration) is stored multiplied by walkSpeed * TimeScale, so  *)
(* walkSpeed > 0, a common positive divisor of all of them, cancels.       *)
(*                                                                         *)
(* Specifications.  Spec is the routing query from the fetch to the        *)
(* returned route.  The functions that stand on their own (cost of an      *)
(* edge, buildGraph on one way, ShadowSampler, the route post-processor)   *)
(* are also run on enumerated arguments: call holds the arguments, ret the *)
(* returned value, and each has a specification of its own.                *)
(***************************************************************************)
EXTENDS Integers, Sequences, FiniteSets, TLC

\* ------------------------------------------------------------------ bounds
MaxNodes == 4
MaxWays == 3
PrefDen == 2
ShadeDen == 1

TimeScale == PrefDen * PrefDen * ShadeDen

Infinity == 1000000

Impls == {"server", "client", "lib"}
Highways == {"footway", "residential"}
Prefs == 0..PrefDen
ShadeLevels == 0..ShadeDen
NodeIds == 0..(MaxNodes - 1)

\* the queries: from the southernmost node's latitude to any node's latitude
StartLats == {0}
GoalLats == NodeIds

\* the ways of a response: footways and streets, one-way tagged on streets only
WayKinds == {k \in Highways \X BOOLEAN : k[2] => k[1] = "residential"}

\* the statuses findWalkingRoute reports, in stage order
StageOrder ==
  <<"GETTING_WAYS_DATA", "COMPUTING_SHADE_MAP", "BUILDING_GRAPH",
    "FINDING_ROUTE", "ROUTE_COMPLETED">>

NoResult == [path |-> <<>>, edges |-> <<>>, shade |-> <<>>, distance |-> 0, time_s |-> 0]

\* no function is being run on its own
NoCall == [op |-> "none"]

\* App: the places a click can land on, and null for a point and for the route
MaxPoints == 2
Points == 1..MaxPoints
NoPoint == 0
NoRoute == [start |-> NoPoint, end |-> NoPoint]

\* App: the most fetchRoute calls in flight at once
MaxInFlight == 2

VARIABLES
  impl,        \* which generation of the routing core runs
  pc,          \* position of the query
  progress,    \* statuses delivered to onProgress, in order
  shadeData,   \* "unset" | "map" (a shade map) | "undefined" (getShadeData caught a throw)
  coords,      \* graph.coords: node index -> latitude
  edgesMeta,   \* graph.edgesMeta, with the shade of shadeByEdgeId attached
  adj,         \* directed links: node index -> sequence of [to, length, eid, highway]
  opts,        \* [shadePreference, pedestrianPathPreference], numerators over PrefDen
  startIdx, goalIdx,
  g, f, parent, parentEdge, closed, heap,   \* the search arrays of astar
  result,      \* what findRoute returned
  error,       \* "none" or the error the query ended with
  call,        \* a function of the code called on its own: [op, arguments]
  ret,         \* what that call returned, [op |-> "none"] before it returns
  startPoint, endPoint,   \* App: the clicked points, NoPoint for null
  displayedRoute,  \* App: the state named route, NoRoute for null
  routeError,  \* App: "none" for null, or the error the modal shows
  isLoadingRoute,
  routeProgress,   \* App: completed flags of the progress steps, <<>> when empty
  inFlight,    \* App: the fetchRoute calls not yet settled, oldest first
  crashed      \* App: a state updater threw

vars == <<impl, pc, progress, shadeData, coords, edgesMeta, adj, opts,
          startIdx, goalIdx, g, f, parent, parentEdge, closed, heap, result, error,
          call, ret,
          startPoint, endPoint, displayedRoute, routeError, isLoadingRoute, routeProgress,
          inFlight, crashed>>

appVars == <<startPoint, endPoint, displayedRoute, routeError, isLoadingRoute, routeProgress,
             inFlight, crashed>>

\* the state of App after its first render
AppAtRest ==
  /\ startPoint = NoPoint /\ endPoint = NoPoint
  /\ displayedRoute = NoRoute
  /\ routeError = "none"
  /\ isLoadingRoute = FALSE
  /\ routeProgress = <<>>
  /\ inFlight = <<>>
  /\ crashed = FALSE

graphVars == <<coords, edgesMeta, adj>>
searchVars == <<g, f, parent, parentEdge, closed, heap>>

\* ------------------------------------------------------------ pure helpers
Abs(x) == IF x < 0 THEN -x ELSE x

\* turf distance / haversine of two latitudes on one meridian, in units
distance(latA, latB) == Abs(latA - latB)

Min(S) == CHOOSE x \in S : \A y \in S : x <= y

RECURSIVE SumSeq(_)
SumSeq(s) == IF s = <<>> THEN 0 ELSE Head(s) + SumSeq(Tail(s))

Reverse(s) == [i \in 1..Len(s) |-> s[Len(s) + 1 - i]]

\* a way's rank among the node pairs a < b, the order ways are listed in
PairRank(a, b) == a * MaxNodes + b

\* ------------------------------------------------------------- cost model
\* variant: steps are left out of the pedestrian-only list
isPedestrianOnly_NoSteps(highway) == highway \in {"footway", "path", "pedestrian"}

isPedestrianOnly(highway) == highway \in {"footway", "path", "pedestrian", "steps"}

\* pathTypeMultiplier * PrefDen
pathTypeMultiplier(highway, o) ==
  IF isPedestrianOnly(highway) THEN PrefDen - o.pedestrianPathPreference ELSE PrefDen

\* variant: sun exposure lowers the cost instead of raising it
shadeMultiplier_Minus(shade, o) ==
  PrefDen * ShadeDen - o.shadePreference * (ShadeDen - shade)

\* shadeMultiplier * PrefDen * ShadeDen
shadeMultiplier(shade, o) ==
  PrefDen * ShadeDen + o.shadePreference * (ShadeDen - shade)

\* edgeTime of client and lib: baseTime * pathTypeMultiplier * shadeMultiplier
edgeTimeClient(length, highway, shade, o) ==
  length * pathTypeMultiplier(highway, o) * shadeMultiplier(shade, o)

\* edgeTime of server: baseTime * (1 + sunPenalty - shadeBonus)
edgeTimeServer(length, shade, o) ==
  LET sunExposure == ShadeDen - shade
      shadeBonus  == o.shadePreference * shade
      sunPenalty  == o.shadePreference * sunExposure
  IN  length * PrefDen * (PrefDen * ShadeDen + sunPenalty - shadeBonus)

shadeOf(meta, eid) == meta[eid + 1].shade

edgeTime(im, meta, edge, o) ==
  IF im = "server"
    THEN edgeTimeServer(edge.length, shadeOf(meta, edge.eid), o)
    ELSE edgeTimeClient(edge.length, edge.highway, shadeOf(meta, edge.eid), o)

\* baseTime = edge.length / walkSpeed
baseTime(length) == length * TimeScale

\* heuristic(i) = distance(i, goal) / walkSpeed
heuristic(c, i, goal) == distance(c[i], c[goal]) * TimeScale

\* ------------------------------------------------------------ graph access
Nodes(c) == DOMAIN c

\* lib: forEachLinkedNode(i, cb) visits every link of node i, incoming or outgoing
hasConnections(a, i) ==
  \/ Len(a[i]) > 0
  \/ \E j \in DOMAIN a : \E k \in 1..Len(a[j]) : a[j][k].to = i

\* variant: lib considers nodes without links too
nearestNode_NoLinkFilter(im, c, a, lat) ==
  LET cand == Nodes(c)
  IN  IF cand = {} THEN -1
      ELSE LET best == Min({distance(lat, c[i]) : i \in cand})
           IN  Min({i \in cand : distance(lat, c[i]) = best})

\* nearestNode: linear scan, strict <, so the lowest index wins an exact tie;
\* the lib generation skips nodes without any link
nearestNode(im, c, a, lat) ==
  LET cand == {i \in Nodes(c) : im = "lib" => hasConnections(a, i)}
  IN  IF cand = {} THEN -1
      ELSE LET best == Min({distance(lat, c[i]) : i \in cand})
           IN  Min({i \in cand : distance(lat, c[i]) = best})

\* ---------------------------------------------------------------- initial
Init ==
  /\ impl \in Impls
  /\ pc = IF impl = "lib" THEN "getWays" ELSE "build"
  /\ progress = <<>>
  /\ shadeData = IF impl = "client" THEN "map" ELSE "unset"
  /\ coords = <<>>
  /\ edgesMeta = <<>>
  /\ adj = <<>>
  /\ opts = [shadePreference |-> 0, pedestrianPathPreference |-> 0]
  /\ startIdx = -1
  /\ goalIdx = -1
  /\ g = <<>> /\ f = <<>> /\ parent = <<>> /\ parentEdge = <<>>
  /\ closed = <<>> /\ heap = <<>>
  /\ result = NoResult
  /\ error = "none"
  /\ call = NoCall
  /\ ret = NoCall
  /\ AppAtRest

\* ------------------------------------------- findWalkingRoute, lib pipeline
\* getWaysData: reports GETTING_WAYS_DATA, then the fetch answers 2xx
GetWaysDataOk ==
  /\ pc = "getWays"
  /\ progress' = Append(progress, "GETTING_WAYS_DATA")
  /\ pc' = "getShade"
  /\ UNCHANGED <<appVars, call, ret, impl, shadeData, graphVars, opts, startIdx, goalIdx, searchVars, result, error>>

\* getWaysData: the fetch answers non-2xx, the throw leaves findWalkingRoute
GetWaysDataFail ==
  /\ pc = "getWays"
  /\ progress' = Append(progress, "GETTING_WAYS_DATA")
  /\ pc' = "failed"
  /\ error' = "OverpassError"
  /\ UNCHANGED <<appVars, call, ret, impl, shadeData, graphVars, opts, startIdx, goalIdx, searchVars, result>>

\* getShadeData: bounds is always an object; generateShadeMap resolves, or
\* throws and the catch swallows it so that undefined is returned
GetShadeData ==
  /\ pc = "getShade"
  /\ progress' = Append(progress, "COMPUTING_SHADE_MAP")
  /\ shadeData' \in {"map", "undefined"}
  /\ pc' = "build"
  /\ UNCHANGED <<appVars, call, ret, impl, graphVars, opts, startIdx, goalIdx, searchVars, result, error>>

\* variant: buildGraph reports nothing
BuildGraphProgress_NoReport(im, prog) == prog

\* buildGraph: if (onProgress) onProgress(BUILDING_GRAPH); only lib reports
BuildGraphProgress(im, prog) ==
  IF im = "lib" THEN Append(prog, "BUILDING_GRAPH") ELSE prog

\* ---------------------------------------------------------------- buildGraph
\* Phases 1 and 3: nodes get dense indices, coords and empty link lists.
\* The response holds no node at all, or MaxNodes nodes.
BuildGraphNodes ==
  /\ pc = "build"
  /\ progress' = BuildGraphProgress(impl, progress)
  /\ \E n \in {0, MaxNodes} :
       /\ coords' = [i \in 0..(n - 1) |-> i]
       /\ adj' = [i \in 0..(n - 1) |-> <<>>]
  /\ edgesMeta' = <<>>
  /\ pc' = "ways"
  /\ UNCHANGED <<appVars, call, ret, impl, shadeData, opts, startIdx, goalIdx, searchVars, result, error>>

\* the shade fractions an edge can get: the server generation stores 0.0 for
\* every edge; without a shade map no sampling happens
EdgeShades == IF impl = "server" \/ shadeData # "map" THEN {0} ELSE ShadeLevels

\* Phase 4, one walkable way <<a, b>>: one edge id, a forward link and,
\* unless the way is one-way, the reverse link
BuildGraphWay ==
  /\ pc = "ways"
  /\ Len(edgesMeta) < MaxWays
  /\ \E a \in Nodes(coords), b \in Nodes(coords), kind \in WayKinds, shade \in EdgeShades :
       LET highway  == kind[1]
           isOneway == kind[2]
           length == distance(coords[a], coords[b])
           eid    == Len(edgesMeta)
           fwd    == [to |-> b, length |-> length, eid |-> eid, highway |-> highway]
           rev    == [to |-> a, length |-> length, eid |-> eid, highway |-> highway]
           adj1   == [adj EXCEPT ![a] = Append(@, fwd)]
       IN  /\ a < b
           /\ \A k \in 1..Len(edgesMeta) :
                PairRank(edgesMeta[k].a, edgesMeta[k].b) < PairRank(a, b)
           /\ length # 0
           /\ edgesMeta' = Append(edgesMeta,
                [eid |-> eid, a |-> a, b |-> b, length |-> length,
                 highway |-> highway, shade |-> shade])
           /\ adj' = IF isOneway THEN adj1 ELSE [adj1 EXCEPT ![b] = Append(@, rev)]
  /\ UNCHANGED <<appVars, call, ret, impl, pc, progress, shadeData, coords, opts, startIdx, goalIdx,
                 searchVars, result, error>>

\* new ShadowSampler(shadeData) reads shadeData.bounds: a TypeError on null
ShadowSamplerThrows(im, sd) == im = "lib" /\ sd = "undefined"

\* Phase 5 and the return: lib constructs the ShadowSampler first
BuildGraphShade ==
  /\ pc = "ways"
  /\ IF ShadowSamplerThrows(impl, shadeData)
       THEN /\ pc' = "failed"
            /\ error' = "TypeError"
       ELSE /\ pc' = "built"
            /\ error' = error
  /\ UNCHANGED <<appVars, call, ret, impl, progress, shadeData, graphVars, opts, startIdx, goalIdx,
                 searchVars, result>>

\* ------------------------------------------------- server.js: binary heap
\* positions are 0-based as in the code; heap[k] is h[k + 1]
Swap(h, i, j) == [h EXCEPT ![i + 1] = h[j + 1], ![j + 1] = h[i + 1]]

RECURSIVE siftUp(_, _, _)
siftUp(h, k, fv) ==
  IF k > 0
    THEN LET par == (k - 1) \div 2
         IN  IF fv[h[par + 1]] <= fv[h[k + 1]] THEN h
             ELSE siftUp(Swap(h, par, k), par, fv)
    ELSE h

RECURSIVE siftDown(_, _, _)
siftDown(h, k, fv) ==
  LET left  == k * 2 + 1
      right == left + 1
      s1 == IF left < Len(h) /\ fv[h[left + 1]] < fv[h[k + 1]] THEN left ELSE k
      smallest == IF right < Len(h) /\ fv[h[right + 1]] < fv[h[s1 + 1]] THEN right ELSE s1
  IN  IF smallest = k THEN h ELSE siftDown(Swap(h, smallest, k), smallest, fv)

push(h, i, fv) == siftUp(Append(h, i), Len(h), fv)

pop(h, fv) ==
  LET top  == h[1]
      last == h[Len(h)]
      rest == SubSeq(h, 1, Len(h) - 1)
  IN  [current |-> top,
       heap |-> IF Len(rest) > 0 THEN siftDown([rest EXCEPT ![1] = last], 0, fv) ELSE rest]

\* ------------------------------------------ client: heap-js priority queue
\* heap-js is not part of the tree.  push adds an entry; pop hands out an
\* entry whose f is least, any one of them when several tie.
RemoveAt(h, k) == SubSeq(h, 1, k - 1) \o SubSeq(h, k + 1, Len(h))

\* the order heap-js keeps among entries of equal f: not known ("any") unless
\* the query is one that is asked twice, where it is one fixed order
TieOrder == IF call.op = "findRoute" THEN call.ties ELSE "any"

HeapJsPop(h, fv) ==
  LET least == {k \in 1..Len(h) : \A j \in 1..Len(h) : fv[h[k]] <= fv[h[j]]}
      ks == IF TieOrder = "oldest" THEN {Min(least)}
            ELSE IF TieOrder = "newest" THEN {CHOOSE k \in least : \A j \in least : j <= k}
            ELSE least
  IN  {[current |-> h[k], heap |-> RemoveAt(h, k)] : k \in ks}

HeapPush(im, h, i, fv) == IF im = "server" THEN push(h, i, fv) ELSE Append(h, i)

\* variant: pop hands out the first entry and leaves it in the queue
HeapPop_KeepsEntry(im, h, fv) == {[current |-> h[1], heap |-> h]}

HeapPop(im, h, fv) == IF im = "server" THEN {pop(h, fv)} ELSE HeapJsPop(h, fv)

\* ------------------------------------------------ astar, server and client
\* variant: the cost so far is dropped
tentativeG_EdgeOnly(gCurrent, et) == et

\* const tentativeG = g[current] + edgeTime
tentativeG(gCurrent, et) == gCurrent + et

\* the for loop over graph.adj[current]: relax the edges in list order
RECURSIVE Relax(_, _, _, _, _, _, _, _)
Relax(im, c, meta, o, goal, edges, current, st) ==
  IF edges = <<>> THEN st
  ELSE LET edge == Head(edges)
           neighbor == edge.to
           tentG == tentativeG(st.g[current], edgeTime(im, meta, edge, o))
       IN  IF tentG < st.g[neighbor]
             THEN LET f1 == [st.f EXCEPT ![neighbor] = tentG + heuristic(c, neighbor, goal)]
                  IN  Relax(im, c, meta, o, goal, Tail(edges), current,
                        [g |-> [st.g EXCEPT ![neighbor] = tentG],
                         f |-> f1,
                         parent |-> [st.parent EXCEPT ![neighbor] = current],
                         parentEdge |-> [st.parentEdge EXCEPT ![neighbor] = edge.eid],
                         heap |-> HeapPush(im, st.heap, neighbor, f1)])
             ELSE Relax(im, c, meta, o, goal, Tail(edges), current, st)

\* findRoute up to the start of the while loop
FindRouteStart ==
  /\ pc = "built"
  /\ impl # "lib"
  /\ \E startLat \in StartLats, goalLat \in GoalLats, sp \in Prefs,
        pp \in (IF impl = "server" THEN {0} ELSE Prefs) :
       LET s == nearestNode(impl, coords, adj, startLat)
           t == nearestNode(impl, coords, adj, goalLat)
       IN  /\ opts' = [shadePreference |-> sp, pedestrianPathPreference |-> pp]
           /\ startIdx' = s
           /\ goalIdx' = t
           /\ IF s = -1 \/ t = -1
                THEN /\ pc' = "failed"
                     /\ error' = "NoNearbyNodes"
                     /\ UNCHANGED searchVars
                ELSE /\ pc' = "search"
                     /\ error' = error
                     /\ g' = [[i \in Nodes(coords) |-> Infinity] EXCEPT ![s] = 0]
                     /\ f' = [[i \in Nodes(coords) |-> Infinity] EXCEPT ![s] = heuristic(coords, s, t)]
                     /\ parent' = [i \in Nodes(coords) |-> -1]
                     /\ parentEdge' = [i \in Nodes(coords) |-> -1]
                     /\ closed' = [i \in Nodes(coords) |-> FALSE]
                     /\ heap' = <<s>>
  /\ UNCHANGED <<appVars, call, ret, impl, progress, shadeData, graphVars, result>>

\* one iteration of while (heap.size() > 0)
AstarStep ==
  /\ pc = "search"
  /\ heap # <<>>
  /\ \E p \in HeapPop(impl, heap, f) :
       LET current == p.current
       IN  IF current = goalIdx
             THEN /\ pc' = "reconstruct"
                  /\ heap' = p.heap
                  /\ UNCHANGED <<g, f, parent, parentEdge, closed>>
           ELSE IF closed[current]
             THEN /\ pc' = pc
                  /\ heap' = p.heap
                  /\ UNCHANGED <<g, f, parent, parentEdge, closed>>
           ELSE LET st == Relax(impl, coords, edgesMeta, opts, goalIdx, adj[current], current,
                            [g |-> g, f |-> f, parent |-> parent,
                             parentEdge |-> parentEdge, heap |-> p.heap])
                IN  /\ pc' = pc
                    /\ closed' = [closed EXCEPT ![current] = TRUE]
                    /\ g' = st.g /\ f' = st.f /\ parent' = st.parent
                    /\ parentEdge' = st.parentEdge /\ heap' = st.heap
  /\ UNCHANGED <<appVars, call, ret, impl, progress, shadeData, graphVars, opts, startIdx, goalIdx, result, error>>

\* the queue ran empty
AstarQueueEmpty ==
  /\ pc = "search"
  /\ heap = <<>>
  /\ pc' = "reconstruct"
  /\ UNCHANGED <<appVars, call, ret, impl, progress, shadeData, graphVars, opts, startIdx, goalIdx,
                 searchVars, result, error>>

\* the parent chain from cur back to the start, goal first
RECURSIVE ChainNodes(_, _)
ChainNodes(par, cur) ==
  IF cur = -1 THEN <<>> ELSE <<cur>> \o ChainNodes(par, par[cur])

RECURSIVE ChainEdges(_, _, _)
ChainEdges(par, parE, cur) ==
  IF cur = -1 THEN <<>>
  ELSE (IF parE[cur] # -1 THEN <<parE[cur]>> ELSE <<>>) \o ChainEdges(par, parE, par[cur])

\* variant: the duration is the bare travel time of the route
Reconstruct_BareTime(im, meta, gv, par, parE, goal) ==
  LET path  == Reverse(ChainNodes(par, goal))
      edges == Reverse(ChainEdges(par, parE, goal))
      dist  == SumSeq([k \in 1..Len(edges) |-> meta[edges[k] + 1].length])
  IN  [path |-> path,
       edges |-> edges,
       shade |-> IF im = "server" THEN <<>> ELSE [k \in 1..Len(edges) |-> shadeOf(meta, edges[k])],
       distance |-> dist,
       time_s |-> dist * TimeScale]

\* astar after the loop, and the rest of findRoute
Reconstruct(im, meta, gv, par, parE, goal) ==
  LET path  == Reverse(ChainNodes(par, goal))
      edges == Reverse(ChainEdges(par, parE, goal))
  IN  [path |-> path,
       edges |-> edges,
       shade |-> IF im = "server" THEN <<>> ELSE [k \in 1..Len(edges) |-> shadeOf(meta, edges[k])],
       distance |-> SumSeq([k \in 1..Len(edges) |-> meta[edges[k] + 1].length]),
       time_s |-> gv[goal]]

AstarReturn ==
  /\ pc = "reconstruct"
  /\ IF g[goalIdx] >= Infinity
       THEN /\ pc' = "failed"
            /\ error' = "NoRouteFound"
            /\ result' = result
       ELSE /\ pc' = "done"
            /\ error' = error
            /\ result' = Reconstruct(impl, edgesMeta, g, parent, parentEdge, goalIdx)
  /\ UNCHANGED <<appVars, call, ret, impl, progress, shadeData, graphVars, opts, startIdx, goalIdx, searchVars>>

\* --------------------------------------------------- lib: ngraph.path call
Range(p) == {p[k] : k \in 1..Len(p)}

\* a link u -> v; searched as undirected when oriented is FALSE
Linked(a, u, v, oriented) ==
  \/ \E k \in 1..Len(a[u]) : a[u][k].to = v
  \/ ~oriented /\ \E k \in 1..Len(a[v]) : a[v][k].to = u

\* the simple node sequences that extend p to t
RECURSIVE SimplePaths(_, _, _, _)
SimplePaths(a, p, t, oriented) ==
  IF p[Len(p)] = t THEN {p}
  ELSE UNION {SimplePaths(a, Append(p, v), t, oriented) :
                v \in {w \in DOMAIN a : w \notin Range(p) /\ Linked(a, p[Len(p)], w, oriented)}}

Reachable(a, s, t) == SimplePaths(a, <<s>>, t, TRUE) # {}

\* pathFinder.find(startIdx, goalIdx).  ngraph.path is not part of the tree:
\* the model allows every answer an A* library can give.  It answers with a
\* simple path joining the two nodes, listed from either end, over the links
\* taken as directed or as undirected; it answers with the empty path only
\* when no directed path exists.
PathFinderFind(a, s, t) ==
  LET und == SimplePaths(a, <<s>>, t, FALSE)
  IN  und \cup {Reverse(p) : p \in und}
          \cup (IF Reachable(a, s, t) THEN {} ELSE {<<>>})

\* ngraphInstance.getLink(fromNode, toNode): the link from -> to, if any
getLink(a, from, to) ==
  LET ks == {k \in 1..Len(a[from]) : a[from][k].to = to}
  IN  IF ks = {} THEN <<>> ELSE <<a[from][Min(ks)]>>

\* astar of lib after pathFinder.find: metrics of foundPath
RECURSIVE LibMetrics(_, _, _, _, _)
LibMetrics(c, a, meta, foundPath, acc) ==
  IF Len(foundPath) < 2 THEN acc
  ELSE LET fromNode == foundPath[1]
           toNode   == foundPath[2]
           link     == getLink(a, fromNode, toNode)
       IN  LibMetrics(c, a, meta, Tail(foundPath),
             IF link # <<>>
               THEN [acc EXCEPT !.edges = Append(@, link[1].eid),
                                !.shade = Append(@, shadeOf(meta, link[1].eid)),
                                !.distance = @ + distance(c[fromNode], c[toNode])]
               ELSE acc)

AstarLib(c, a, meta, foundPath) ==
  LET m == LibMetrics(c, a, meta, foundPath,
             [path |-> foundPath, edges |-> <<>>, shade |-> <<>>, distance |-> 0, time_s |-> 0])
  IN  [m EXCEPT !.time_s = m.distance * TimeScale]

\* variant: ROUTE_COMPLETED is reported whether or not findRoute returned
FindRouteProgress_Always(prog, returned) ==
  prog \o <<"FINDING_ROUTE", "ROUTE_COMPLETED">>

\* findWalkingRoute: FINDING_ROUTE before findRoute, ROUTE_COMPLETED after
\* it returned; a throw of findRoute skips the second report
FindRouteProgress(prog, returned) ==
  IF returned THEN prog \o <<"FINDING_ROUTE", "ROUTE_COMPLETED">>
  ELSE Append(prog, "FINDING_ROUTE")

\* findWalkingRoute of lib from FINDING_ROUTE on: findRoute runs without an
\* await, and ROUTE_COMPLETED is reported only when it returned
FindRouteLib ==
  /\ pc = "built"
  /\ impl = "lib"
  /\ \E startLat \in StartLats, goalLat \in GoalLats, sp \in Prefs, pp \in {0} :
       LET s == nearestNode(impl, coords, adj, startLat)
           t == nearestNode(impl, coords, adj, goalLat)
       IN  /\ opts' = [shadePreference |-> sp, pedestrianPathPreference |-> pp]
           /\ startIdx' = s
           /\ goalIdx' = t
           /\ IF s = -1 \/ t = -1
                THEN /\ pc' = "failed"
                     /\ error' = "NoNearbyNodes"
                     /\ result' = result
                     /\ progress' = FindRouteProgress(progress, FALSE)
                ELSE \E foundPath \in PathFinderFind(adj, s, t) :
                       IF Len(foundPath) = 0
                         THEN /\ pc' = "failed"
                              /\ error' = "NoRouteFound"
                              /\ result' = result
                              /\ progress' = FindRouteProgress(progress, FALSE)
                         ELSE /\ pc' = "done"
                              /\ error' = error
                              /\ result' = AstarLib(coords, adj, edgesMeta, foundPath)
                              /\ progress' = FindRouteProgress(progress, TRUE)
  /\ UNCHANGED <<appVars, call, ret, impl, shadeData, graphVars, searchVars>>

\* ------------------------------------------------------------ specification
Next ==
  \/ GetWaysDataOk
  \/ GetWaysDataFail
  \/ GetShadeData
  \/ BuildGraphNodes
  \/ BuildGraphWay
  \/ BuildGraphShade
  \/ FindRouteStart
  \/ AstarStep
  \/ AstarQueueEmpty
  \/ AstarReturn
  \/ FindRouteLib

Spec == Init /\ [][Next]_vars

TypeOK ==
  /\ impl \in Impls
  /\ error \in {"none", "OverpassError", "TypeError", "NoNearbyNodes", "NoRouteFound"}

\* ======================================== functions run on their own
mainVars == <<impl, pc, progress, shadeData, coords, edgesMeta, adj, opts,
              startIdx, goalIdx, g, f, parent, parentEdge, closed, heap, result, error>>

\* no query is running
Idle ==
  /\ impl = "lib" /\ pc = "idle" /\ progress = <<>> /\ shadeData = "unset"
  /\ coords = <<>> /\ edgesMeta = <<>> /\ adj = <<>>
  /\ opts = [shadePreference |-> 0, pedestrianPathPreference |-> 0]
  /\ startIdx = -1 /\ goalIdx = -1
  /\ g = <<>> /\ f = <<>> /\ parent = <<>> /\ parentEdge = <<>>
  /\ closed = <<>> /\ heap = <<>>
  /\ result = NoResult /\ error = "none"
  /\ AppAtRest

\* ------------------------------------------------ astar: cost of one edge
\* an option the caller left out (undefined)
Unset == -1

\* the defaults of astar's destructuring, as fractions <<numerator, denominator>>
DefaultWalkSpeed == <<7, 5>>
DefaultShadePreference == <<0, 1>>
DefaultPedestrianPathPreference == <<1, 5>>

\* const { walkSpeed = 1.4, shadePreference = 0.0, pedestrianPathPreference = 0.2 } = opts;
\* server.js destructures walkSpeed and shadePreference only
astarOptions(im, o) ==
  [walkSpeed |-> IF o.walkSpeed = Unset THEN DefaultWalkSpeed ELSE <<o.walkSpeed, 1>>,
   shadePreference |->
     IF o.shadePreference = Unset THEN DefaultShadePreference
     ELSE <<o.shadePreference, PrefDen>>,
   pedestrianPathPreference |->
     IF im = "server" THEN Unset
     ELSE IF o.pedestrianPathPreference = Unset THEN DefaultPedestrianPathPreference
     ELSE <<o.pedestrianPathPreference, PrefDen>>]

\* the default 0.2 is no multiple of 1 / PrefDen: the cost under it is not computed
CostComputable(im, o) == im = "server" \/ o.pedestrianPathPreference # Unset

\* edgeTime of one edge under the options as given, times walkSpeed * TimeScale
astarEdgeTime(im, edge, o) ==
  edgeTime(im, <<[shade |-> edge.shade]>>,
           [eid |-> 0, length |-> edge.length, highway |-> edge.highway],
           [shadePreference |-> IF o.shadePreference = Unset THEN 0 ELSE o.shadePreference,
            pedestrianPathPreference |->
              IF o.pedestrianPathPreference = Unset THEN 0 ELSE o.pedestrianPathPreference])

CostHighways == {"footway", "path", "pedestrian", "steps", "cycleway", "residential"}

CostCalls ==
  {c \in [op : {"astar"}, impl : Impls,
          options : [walkSpeed : {Unset, 1}, shadePreference : Prefs \cup {Unset},
                     pedestrianPathPreference : Prefs \cup {Unset}],
          edge : [length : 1..2, highway : CostHighways, shade : ShadeLevels]] :
     c.impl = "server" => c.edge.shade = 0}

InitCost == Idle /\ call \in CostCalls /\ ret = NoCall

\* astar reads its options and costs the edge
AstarCost ==
  /\ call.op = "astar"
  /\ ret = NoCall
  /\ ret' = [op |-> "astar",
             options |-> astarOptions(call.impl, call.options),
             cost |-> IF CostComputable(call.impl, call.options)
                        THEN astarEdgeTime(call.impl, call.edge, call.options)
                        ELSE -1]
  /\ UNCHANGED <<appVars, call, mainVars>>

NextCost == AstarCost

SpecCost == InitCost /\ [][NextCost]_vars

\* ------------------------------------------------- buildGraph on one way
\* a tag the way does not carry (undefined)
Absent == "absent"

\* the node elements of the topology: OSM id -> latitude and index; nodes 2
\* and 3 lie on the same spot, and id 9 is referenced by ways but not fetched
OsmNodes ==
  (1 :> [lat |-> 0, idx |-> 0]) @@ (2 :> [lat |-> 1, idx |-> 1]) @@
  (3 :> [lat |-> 1, idx |-> 2]) @@ (4 :> [lat |-> 2, idx |-> 3])

OsmIds == DOMAIN OsmNodes \cup {9}

MaxWayNodes == 3

\* variant: access = private closes the way even with foot = yes
isWalkable_NoFootOverride(tags) ==
  /\ tags.highway # Absent
  /\ tags.access # "private"
  /\ ~(tags.access = "no" /\ tags.foot # "yes")
  /\ tags.foot # "no"
  /\ tags.highway \in
       {"footway", "path", "pedestrian", "steps", "cycleway",
        "residential", "living_street", "service", "track",
        "primary", "secondary", "tertiary", "unclassified",
        "primary_link", "secondary_link", "tertiary_link"}

\* Phase 2: isWalkable
isWalkable(tags) ==
  /\ tags.highway # Absent
  /\ ~(tags.access = "private" /\ tags.foot # "yes")
  /\ ~(tags.access = "no" /\ tags.foot # "yes")
  /\ tags.foot # "no"
  /\ tags.highway \in
       {"footway", "path", "pedestrian", "steps", "cycleway",
        "residential", "living_street", "service", "track",
        "primary", "secondary", "tertiary", "unclassified",
        "primary_link", "secondary_link", "tertiary_link"}

\* variant: only oneway = yes makes a way one-way
isOneway_YesOnly(tags) == tags.oneway = "yes"

\* const isOneway = oneway === "yes" || oneway === "true" || oneway === "1"
isOneway(tags) == tags.oneway \in {"yes", "true", "1"}

\* variant: a pair of length 0 is kept
isZeroLength_Never(length) == FALSE

\* if (length === 0) continue
isZeroLength(length) == length = 0

\* el.nodes.filter(nodeId => nodes.has(nodeId))
validNodes(el) == SelectSeq(el.nodes, LAMBDA id : id \in DOMAIN OsmNodes)

\* the loop over the consecutive pairs of validNodes, from pair i on
RECURSIVE waySegments(_, _, _, _)
waySegments(el, valid, i, acc) ==
  IF i >= Len(valid) THEN acc
  ELSE LET nodeA  == OsmNodes[valid[i]]
           nodeB  == OsmNodes[valid[i + 1]]
           length == distance(nodeA.lat, nodeB.lat)
           eid    == acc.edgeSeq
           fwd    == [from |-> nodeA.idx, to |-> nodeB.idx, eid |-> eid,
                      length |-> length, highway |-> el.tags.highway]
           rev    == [from |-> nodeB.idx, to |-> nodeA.idx, eid |-> eid,
                      length |-> length, highway |-> el.tags.highway]
       IN  IF isZeroLength(length) THEN waySegments(el, valid, i + 1, acc)
           ELSE waySegments(el, valid, i + 1,
                  [edgeSeq |-> eid + 1,
                   edgesMeta |-> Append(acc.edgesMeta,
                      [eid |-> eid, a |-> nodeA.idx, b |-> nodeB.idx,
                       length |-> length, highway |-> el.tags.highway]),
                   links |-> IF isOneway(el.tags) THEN Append(acc.links, fwd)
                             ELSE acc.links \o <<fwd, rev>>])

\* Phase 4 on one way element
buildWay(el) ==
  LET empty == [edgeSeq |-> 0, edgesMeta |-> <<>>, links |-> <<>>]
  IN  IF ~isWalkable(el.tags) THEN empty
      ELSE IF Len(validNodes(el)) < 2 THEN empty
      ELSE waySegments(el, validNodes(el), 1, empty)

\* sequences of distinct ids, at most n long
RECURSIVE DistinctSeqs(_, _)
DistinctSeqs(S, n) ==
  IF n = 0 THEN {<<>>}
  ELSE LET shorter == DistinctSeqs(S, n - 1)
       IN  shorter \cup {Append(q, x) : q \in {r \in shorter : Len(r) = n - 1}, x \in S}

WayTags ==
  [highway : {Absent, "footway", "residential", "unclassified", "motorway"},
   access  : {Absent, "private", "no"},
   foot    : {Absent, "yes", "no"},
   oneway  : {Absent, "yes", "true", "1", "no"}]

WayElements ==
  {el \in [nodes : DistinctSeqs(OsmIds, MaxWayNodes), tags : WayTags] :
     \A i, j \in 1..Len(el.nodes) : i # j => el.nodes[i] # el.nodes[j]}

\* Phase 5: the shade of every edge id.  lib constructs the ShadowSampler
\* before it looks at shadeData; server sets 0.0; with a shade map the
\* sampled fraction is any level.  client is called with a shade map only:
\* what its ShadeMapSampler does with null is not in the tree
EdgeShadeMaps(im, sd, n) ==
  IF im = "server" \/ sd = "null" THEN {[eid \in 0..(n - 1) |-> 0]}
  ELSE [0..(n - 1) -> ShadeLevels]

BuildCalls ==
  {c \in [op : {"buildGraph"}, impl : Impls, way : WayElements, shadeData : {"null", "map"}] :
     /\ c.impl = "server" => c.shadeData = "null"
     /\ c.impl = "client" => c.shadeData = "map"}

InitBuild == Idle /\ call \in BuildCalls /\ ret = NoCall

\* buildGraph(waysData, shadeData) on a topology with one way
BuildGraphCall ==
  /\ call.op = "buildGraph"
  /\ ret = NoCall
  /\ LET built == buildWay(call.way)
     IN  IF ShadowSamplerThrows(call.impl, IF call.shadeData = "null" THEN "undefined" ELSE "map")
           THEN ret' = [op |-> "buildGraph", error |-> "TypeError",
                        edgesMeta |-> <<>>, links |-> <<>>, shadeByEdgeId |-> <<>>]
           ELSE \E shades \in EdgeShadeMaps(call.impl, call.shadeData, built.edgeSeq) :
                  ret' = [op |-> "buildGraph", error |-> "none",
                          edgesMeta |-> built.edgesMeta, links |-> built.links,
                          shadeByEdgeId |-> shades]
  /\ UNCHANGED <<appVars, call, mainVars>>

NextBuild == BuildGraphCall

SpecBuild == InitBuild /\ [][NextBuild]_vars

\* ------------------------------------------- ShadowSampler on one shade field
\* sampleAt never returns it; sampleAlongLine tests for it
Null == "null"

\* (color + green + blue) / 3 < 128
ShadeThreshold == 128

\* sampleIntervalMeters = 5
DefaultSampleInterval == 5

\* a coordinate is a fraction <<numerator, denominator>> of a degree
Frac(n, dn) == <<n, dn>>

\* Math.floor(a / b) for b > 0
Floor(a, b) == IF a >= 0 THEN a \div b ELSE -((-a + b - 1) \div b)

\* Math.ceil(sqrt(a2) / b) for b > 0: the least n with (n * b)^2 >= a2
RECURSIVE CeilRoot(_, _, _)
CeilRoot(a2, b, n) == IF n * b * n * b >= a2 THEN n ELSE CeilRoot(a2, b, n + 1)

\* RGBA bytes of one pixel
PixelKinds == {<<0, 0, 0, 255>>, <<127, 128, 128, 0>>, <<128, 128, 128, 255>>,
               <<255, 0, 0, 255>>}

\* shadeData.image.pixels of a raster whose pixel k, row by row, is kinds[k]
pixelsOf(kinds) == [k \in 0 .. (4 * Len(kinds) - 1) |-> kinds[(k \div 4) + 1][(k % 4) + 1]]

\* shadeData: a box of 2 by 2 degrees drawn on 2 by 2 pixels
ShadeFields ==
  {[bounds |-> [west |-> 0, east |-> 2, south |-> 0, north |-> 2],
    image |-> [width |-> 2, height |-> 2, pixels |-> pixelsOf(<<a, b, c, e>>)]] :
     a \in PixelKinds, b \in PixelKinds, c \in PixelKinds, e \in PixelKinds}

\* the fields whose pixels are all black (shaded) or mid grey (not shaded)
TwoToneFields ==
  {sf \in ShadeFields :
     \A k \in 0..3 : sf.image.pixels[4 * k] \in {0, 128} /\ sf.image.pixels[4 * k + 3] = 255}

\* normalizedY = (north - lat) / (north - south); pixelY = floor(normalizedY * height)
\* mutation: rows counted from the southern edge
pixelY_FromSouth(sf, lat) ==
  Floor((lat[1] - sf.bounds.south * lat[2]) * sf.image.height,
        lat[2] * (sf.bounds.north - sf.bounds.south))

pixelY(sf, lat) ==
  Floor((sf.bounds.north * lat[2] - lat[1]) * sf.image.height,
        lat[2] * (sf.bounds.north - sf.bounds.south))

\* normalizedX = (lon - west) / (east - west); pixelX = floor(normalizedX * width)
pixelX(sf, lon) ==
  Floor((lon[1] - sf.bounds.west * lon[2]) * sf.image.width,
        lon[2] * (sf.bounds.east - sf.bounds.west))

\* sampleAt(lat, lon): the value returned and what it appends to this.history
sampleAt(sf, lat, lon) ==
  LET px == pixelX(sf, lon)
      py == pixelY(sf, lat)
      pixelIndex == (py * sf.image.width + px) * 4
      sum == sf.image.pixels[pixelIndex] + sf.image.pixels[pixelIndex + 1]
               + sf.image.pixels[pixelIndex + 2]
  IN  IF px < 0 \/ px >= sf.image.width \/ py < 0 \/ py >= sf.image.height
        THEN [value |-> "false", history |-> <<>>]
        ELSE [value |-> IF sum < 3 * ShadeThreshold THEN "true" ELSE "false",
              history |-> <<pixelIndex>>]

\* distance(from, to, { units: 'meters' }) squared, on a plane where a degree is 5 m
distanceSq(latA, lonA, latB, lonB) ==
  25 * ((latB - latA) * (latB - latA) + (lonB - lonA) * (lonB - lonA))

\* samples = Math.max(1, Math.ceil(dist / sampleIntervalMeters))
numSamples(distSq, interval) ==
  LET c == CeilRoot(distSq, interval, 0) IN IF c < 1 THEN 1 ELSE c

\* for (let i = 0; i <= samples; i++) { ... }
RECURSIVE sampleLoop(_, _, _, _, _, _, _, _)
sampleLoop(sf, latA, lonA, latB, lonB, samples, i, acc) ==
  IF i > samples THEN acc
  ELSE LET lat == Frac(latA * samples + i * (latB - latA), samples)
           lon == Frac(lonA * samples + i * (lonB - lonA), samples)
           isShaded == sampleAt(sf, lat, lon)
           counted == isShaded.value # Null
       IN  sampleLoop(sf, latA, lonA, latB, lonB, samples, i + 1,
             [taken |-> acc.taken + 1,
              shadeSum |-> acc.shadeSum
                             + (IF counted /\ isShaded.value = "true" THEN 1 ELSE 0),
              validSamples |-> acc.validSamples + (IF counted THEN 1 ELSE 0),
              history |-> acc.history \o isShaded.history])

\* sampleAlongLine(latA, lonA, latB, lonB, sampleIntervalMeters = 5);
\* the fraction returned is <<numerator, denominator>>
sampleAlongLine(sf, latA, lonA, latB, lonB, sampleIntervalMeters) ==
  LET interval == IF sampleIntervalMeters = Unset THEN DefaultSampleInterval
                  ELSE sampleIntervalMeters
      samples == numSamples(distanceSq(latA, lonA, latB, lonB), interval)
      acc == sampleLoop(sf, latA, lonA, latB, lonB, samples, 0,
                        [taken |-> 0, shadeSum |-> 0, validSamples |-> 0,
                         history |-> <<>>])
  IN  [samples |-> samples, taken |-> acc.taken, shadeSum |-> acc.shadeSum,
       validSamples |-> acc.validSamples, history |-> acc.history,
       value |-> IF acc.validSamples > 0 THEN <<acc.shadeSum, acc.validSamples>>
                 ELSE <<0, 1>>]

\* points asked of sampleAt, in half degrees; ends of the lines, in whole degrees
HalfDegrees == -1 .. 5
Degrees == -1 .. 3
SampleIntervals == {Unset, 3, 10}

SamplerCalls ==
  [op : {"sampleAt"}, shadeData : ShadeFields, lat : HalfDegrees, lon : HalfDegrees]
  \cup
  [op : {"sampleAlongLine"}, shadeData : TwoToneFields,
   latA : Degrees, lonA : Degrees, latB : Degrees, lonB : Degrees,
   sampleIntervalMeters : SampleIntervals]

InitSampler == Idle /\ call \in SamplerCalls /\ ret = NoCall

SampleAt ==
  /\ call.op = "sampleAt"
  /\ ret = NoCall
  /\ LET r == sampleAt(call.shadeData, Frac(call.lat, 2), Frac(call.lon, 2))
     IN  ret' = [op |-> "sampleAt", value |-> r.value, history |-> r.history]
  /\ UNCHANGED <<appVars, call, mainVars>>

SampleAlongLine ==
  /\ call.op = "sampleAlongLine"
  /\ ret = NoCall
  /\ LET r == sampleAlongLine(call.shadeData, call.latA, call.lonA, call.latB, call.lonB,
                              call.sampleIntervalMeters)
     IN  ret' = [op |-> "sampleAlongLine", samples |-> r.samples, taken |-> r.taken,
                 shadeSum |-> r.shadeSum, validSamples |-> r.validSamples,
                 history |-> r.history, value |-> r.value]
  /\ UNCHANGED <<appVars, call, mainVars>>

NextSampler == SampleAt \/ SampleAlongLine

SpecSampler == InitSampler /\ [][NextSampler]_vars

\* ------------------------------------------------- route post-processing
\* the most legs in a route handed to the post-processor
MaxLegs == 3

\* Math.round(n / dn) for n >= 0 and dn > 0: halves go up
Round(n, dn) == (2 * n + dn) \div (2 * dn)

\* a leg is one consecutive pair of path nodes: its length in half metres, the
\* shade of the edge that joins the pair in quarters, and whether getLink finds
\* a link in the direction the path lists the pair
Legs == [length : 1..3, shade : {0, 1, 4}, link : BOOLEAN]

RECURSIVE SeqsUpTo(_, _)
SeqsUpTo(S, n) ==
  IF n = 0 THEN {<<>>}
  ELSE LET shorter == SeqsUpTo(S, n - 1)
       IN  shorter \cup {Append(s, x) : s \in {t \in shorter : Len(t) = n - 1}, x \in S}

\* coordinates of the path nodes, as metres along the route times two
RECURSIVE pathCoordinates(_)
pathCoordinates(legs) ==
  IF legs = <<>> THEN <<0>>
  ELSE LET before == pathCoordinates(SubSeq(legs, 1, Len(legs) - 1))
       IN  Append(before, before[Len(before)] + legs[Len(legs)].length)

\* astar of lib: if (link) { edgeShadeValues.push(link.data.shade ?? 0) }
RECURSIVE edgeShadeValues(_)
edgeShadeValues(legs) ==
  IF legs = <<>> THEN <<>>
  ELSE IF legs[1].link THEN <<legs[1].shade>> \o edgeShadeValues(Tail(legs))
       ELSE edgeShadeValues(Tail(legs))

\* the route findRoute returns for a path over these legs
routeOfLegs(legs) ==
  [coordinates |-> pathCoordinates(legs), shade |-> edgeShadeValues(legs)]

\* route.shade[i - 1] > 0 for the pair that ends at coordinate i (counted from
\* 0); an index past the end of route.shade reads undefined, which is not > 0
shadeAbove0(route, i) == i <= Len(route.shade) /\ route.shade[i] > 0

\* the map callback of computeSegmentsAndStats, from the pair that ends at
\* coordinate i on
RECURSIVE segmentLoop(_, _, _)
segmentLoop(route, i, acc) ==
  IF i > Len(route.coordinates) - 1 THEN acc
  ELSE LET start == route.coordinates[i]
           end   == route.coordinates[i + 1]
           dist  == Abs(end - start)
       IN  segmentLoop(route, i + 1,
             IF shadeAbove0(route, i)
               THEN [acc EXCEPT !.shadedSegments = Append(@, <<start, end>>),
                                !.totalShadedDistance = @ + dist,
                                !.totalDistance = @ + dist]
               ELSE [acc EXCEPT !.sunnySegments = Append(@, <<start, end>>),
                                !.totalDistance = @ + dist])

\* variant: the sunny distance is rounded from the rounded total and shaded ones
sunnyDistance_OfRounded(total, shaded) == Round(total, 2) - Round(shaded, 2)

\* sunnyDistance: Math.round(totalSunnyDistance)
sunnyDistance(total, shaded) == Round(total - shaded, 2)

\* computeSegmentsAndStats(route); distances are kept in half metres until rounded
computeSegmentsAndStats(route) ==
  LET acc == segmentLoop(route, 1,
               [shadedSegments |-> <<>>, sunnySegments |-> <<>>,
                totalDistance |-> 0, totalShadedDistance |-> 0])
      totalDistance == acc.totalDistance
      totalShadedDistance == acc.totalShadedDistance
      totalSunnyDistance == totalDistance - totalShadedDistance
  IN  [shadedSegments |-> acc.shadedSegments,
       sunnySegments |-> acc.sunnySegments,
       stats |->
         [shadedPercentage |->
            IF totalDistance > 0 THEN Round(totalShadedDistance * 100, totalDistance) ELSE 0,
          sunnyPercentage |->
            IF totalDistance > 0 THEN Round(totalSunnyDistance * 100, totalDistance) ELSE 0,
          totalDistance |-> Round(totalDistance, 2),
          shadedDistance |-> Round(totalShadedDistance, 2),
          sunnyDistance |-> sunnyDistance(totalDistance, totalShadedDistance)]]

\* getShadyPathSections: one section per consecutive pair of path coordinates
shadyPathSections(legs) ==
  LET c == pathCoordinates(legs)
  IN  [i \in 1..Len(legs) |->
         [segmentIndex |-> i - 1, start |-> c[i], end |-> c[i + 1],
          isInShadow |-> legs[i].shade > 0]]

\* the forEach of createGroupedPaths; "none" stands for the null of currentIsShady
RECURSIVE groupLoop(_, _, _)
groupLoop(sections, i, acc) ==
  IF i > Len(sections) THEN acc
  ELSE LET section == sections[i]
           now == IF section.isInShadow THEN "shady" ELSE "sunny"
       IN  groupLoop(sections, i + 1,
             IF acc.currentIsShady = "none" \/ acc.currentIsShady # now
               THEN [shadyPaths |-> IF acc.currentPath # <<>> /\ acc.currentIsShady = "shady"
                                      THEN Append(acc.shadyPaths, acc.currentPath)
                                      ELSE acc.shadyPaths,
                     sunnyPaths |-> IF acc.currentPath # <<>> /\ acc.currentIsShady = "sunny"
                                      THEN Append(acc.sunnyPaths, acc.currentPath)
                                      ELSE acc.sunnyPaths,
                     currentPath |-> <<section.start, section.end>>,
                     currentIsShady |-> now]
               ELSE [acc EXCEPT !.currentPath = Append(@, section.end)])

\* createGroupedPaths(shadyPathSections) of the client
\* variant: every section is a path of its own
createGroupedPaths_Ungrouped(sections) ==
  LET own(shady) == {i \in 1..Len(sections) : sections[i].isInShadow = shady}
      pathsOf(shady) ==
        LET RECURSIVE from(_)
            from(i) == IF i > Len(sections) THEN <<>>
                       ELSE IF i \in own(shady)
                              THEN <<<<sections[i].start, sections[i].end>>>> \o from(i + 1)
                              ELSE from(i + 1)
        IN  from(1)
  IN  [sunnyPaths |-> pathsOf(FALSE), shadyPaths |-> pathsOf(TRUE)]

createGroupedPaths(sections) ==
  IF Len(sections) = 0 THEN [sunnyPaths |-> <<>>, shadyPaths |-> <<>>]
  ELSE LET acc == groupLoop(sections, 1,
                    [shadyPaths |-> <<>>, sunnyPaths |-> <<>>,
                     currentPath |-> <<>>, currentIsShady |-> "none"])
       IN  [sunnyPaths |-> IF acc.currentIsShady = "sunny"
                             THEN Append(acc.sunnyPaths, acc.currentPath)
                             ELSE acc.sunnyPaths,
            shadyPaths |-> IF acc.currentIsShady = "shady"
                             THEN Append(acc.shadyPaths, acc.currentPath)
                             ELSE acc.shadyPaths]

\* client: the forEach of calculateShadePercentages
RECURSIVE sectionLoop(_, _, _)
sectionLoop(sections, i, acc) ==
  IF i > Len(sections) THEN acc
  ELSE LET segmentDistance == Abs(sections[i].end - sections[i].start)
       IN  sectionLoop(sections, i + 1,
             [totalDistance |-> acc.totalDistance + segmentDistance,
              shadyDistance |-> IF sections[i].isInShadow
                                  THEN acc.shadyDistance + segmentDistance
                                  ELSE acc.shadyDistance])

\* client: calculateShadePercentages(shadyPathSections).  The percentages are
\* Math.round(x * 10) / 10 and are kept in tenths of a percent, the distances
\* in half metres until rounded
calculateShadePercentages(sections) ==
  IF Len(sections) = 0
    THEN [shadePercentage |-> 0, sunPercentage |-> 0,
          totalDistance |-> 0, shadyDistance |-> 0, sunnyDistance |-> 0]
    ELSE LET acc == sectionLoop(sections, 1, [totalDistance |-> 0, shadyDistance |-> 0])
             totalDistance == acc.totalDistance
             shadyDistance == acc.shadyDistance
         IN  [shadePercentage |->
                IF totalDistance > 0 THEN Round(shadyDistance * 1000, totalDistance) ELSE 0,
              sunPercentage |->
                IF totalDistance > 0
                  THEN Round((totalDistance - shadyDistance) * 1000, totalDistance)
                  ELSE 1000,
              totalDistance |-> Round(totalDistance, 2),
              shadyDistance |-> Round(shadyDistance, 2),
              sunnyDistance |-> Round(totalDistance - shadyDistance, 2)]

\* legs of half a metre and of seven and a half metres, every pair linked
LongLegs == [length : {1, 15}, shade : {0, 4}, link : {TRUE}]

\* a route over up to MaxLegs legs, or one without any coordinate; the client
\* draws its sections from the path coordinates, whatever links there are
AnalysisCalls ==
  {[op |-> "computeSegmentsAndStats", legs |-> legs, route |-> routeOfLegs(legs)] :
     legs \in SeqsUpTo(Legs, MaxLegs)}
  \cup
  {[op |-> "computeSegmentsAndStats", legs |-> <<>>,
    route |-> [coordinates |-> <<>>, shade |-> <<>>]]}
  \cup
  {[op |-> "createGroupedPaths", legs |-> legs, sections |-> shadyPathSections(legs)] :
     legs \in SeqsUpTo({l \in Legs : l.link}, MaxLegs)}
  \cup
  {[op |-> "calculateShadePercentages", legs |-> legs, sections |-> shadyPathSections(legs)] :
     legs \in SeqsUpTo(LongLegs, MaxLegs)}

InitAnalysis == Idle /\ call \in AnalysisCalls /\ ret = NoCall

ComputeSegmentsAndStats ==
  /\ call.op = "computeSegmentsAndStats"
  /\ ret = NoCall
  /\ LET r == computeSegmentsAndStats(call.route)
     IN  ret' = [op |-> "computeSegmentsAndStats", shadedSegments |-> r.shadedSegments,
                 sunnySegments |-> r.sunnySegments, stats |-> r.stats]
  /\ UNCHANGED <<appVars, call, mainVars>>

CreateGroupedPaths ==
  /\ call.op = "createGroupedPaths"
  /\ ret = NoCall
  /\ LET r == createGroupedPaths(call.sections)
     IN  ret' = [op |-> "createGroupedPaths", sunnyPaths |-> r.sunnyPaths,
                 shadyPaths |-> r.shadyPaths]
  /\ UNCHANGED <<appVars, call, mainVars>>

CalculateShadePercentages ==
  /\ call.op = "calculateShadePercentages"
  /\ ret = NoCall
  /\ LET r == calculateShadePercentages(call.sections)
     IN  ret' = [op |-> "calculateShadePercentages",
                 shadePercentage |-> r.shadePercentage, sunPercentage |-> r.sunPercentage,
                 totalDistance |-> r.totalDistance, shadyDistance |-> r.shadyDistance,
                 sunnyDistance |-> r.sunnyDistance]
  /\ UNCHANGED <<appVars, call, mainVars>>

NextAnalysis == ComputeSegmentsAndStats \/ CreateGroupedPaths \/ CalculateShadePercentages

SpecAnalysis == InitAnalysis /\ [][NextAnalysis]_vars

\* ------------------------------------------- findRoute asked a second time
\* the arrays and the queue astar allocates at every call
\* variant: the closed marks of an earlier call are kept
searchArrays_ClosedKept(c, s, t) ==
  [g |-> [[i \in Nodes(c) |-> Infinity] EXCEPT ![s] = 0],
   f |-> [[i \in Nodes(c) |-> Infinity] EXCEPT ![s] = heuristic(c, s, t)],
   parent |-> [i \in Nodes(c) |-> -1],
   parentEdge |-> [i \in Nodes(c) |-> -1],
   closed |-> IF closed = <<>> THEN [i \in Nodes(c) |-> FALSE] ELSE closed,
   heap |-> <<s>>]

searchArrays(c, s, t) ==
  [g |-> [[i \in Nodes(c) |-> Infinity] EXCEPT ![s] = 0],
   f |-> [[i \in Nodes(c) |-> Infinity] EXCEPT ![s] = heuristic(c, s, t)],
   parent |-> [i \in Nodes(c) |-> -1],
   parentEdge |-> [i \in Nodes(c) |-> -1],
   closed |-> [i \in Nodes(c) |-> FALSE],
   heap |-> <<s>>]

TieOrders == {"oldest", "newest"}

\* server.js has its own heap; the client runs on heap-js under either order
InitRepeat ==
  /\ impl \in {"server", "client"}
  /\ pc = "build"
  /\ progress = <<>>
  /\ shadeData = IF impl = "client" THEN "map" ELSE "unset"
  /\ coords = <<>> /\ edgesMeta = <<>> /\ adj = <<>>
  /\ opts = [shadePreference |-> 0, pedestrianPathPreference |-> 0]
  /\ startIdx = -1 /\ goalIdx = -1
  /\ g = <<>> /\ f = <<>> /\ parent = <<>> /\ parentEdge = <<>>
  /\ closed = <<>> /\ heap = <<>>
  /\ result = NoResult /\ error = "none"
  /\ call \in {c \in [op : {"findRoute"}, ties : TieOrders] :
                 impl = "server" => c.ties = "oldest"}
  /\ ret = NoCall
  /\ AppAtRest

\* the while loop of astar run to its end; findRoute has no await, so a call
\* is one step of the application
RECURSIVE astarLoop(_)
astarLoop(st) ==
  IF st.heap = <<>> THEN st
  ELSE LET p == CHOOSE p \in HeapPop(impl, st.heap, st.f) : TRUE
           current == p.current
       IN  IF current = goalIdx THEN [st EXCEPT !.heap = p.heap]
           ELSE IF st.closed[current] THEN astarLoop([st EXCEPT !.heap = p.heap])
           ELSE LET r == Relax(impl, coords, edgesMeta, opts, goalIdx, adj[current], current,
                           [g |-> st.g, f |-> st.f, parent |-> st.parent,
                            parentEdge |-> st.parentEdge, heap |-> p.heap])
                IN  astarLoop([g |-> r.g, f |-> r.f, parent |-> r.parent,
                               parentEdge |-> r.parentEdge, heap |-> r.heap,
                               closed |-> [st.closed EXCEPT ![current] = TRUE]])

\* findRoute is called again on the same graph with the same options, start
\* and goal, after the first call returned a route or threw NoRouteFound;
\* ret keeps what the first call gave and the graph it was given
FindRouteAgain ==
  /\ pc \in {"done", "failed"}
  /\ startIdx # -1 /\ goalIdx # -1
  /\ call.op = "findRoute"
  /\ ret = NoCall
  /\ ret' = [op |-> "findRoute", result |-> result, error |-> error,
             graph |-> [coords |-> coords, edgesMeta |-> edgesMeta, adj |-> adj]]
  /\ \E st \in {astarLoop(searchArrays(coords, startIdx, goalIdx))} :
         /\ g' = st.g /\ f' = st.f /\ parent' = st.parent /\ parentEdge' = st.parentEdge
         /\ closed' = st.closed /\ heap' = st.heap
         /\ IF st.g[goalIdx] >= Infinity
              THEN /\ pc' = "failed"
                   /\ error' = "NoRouteFound"
                   /\ result' = NoResult
              ELSE /\ pc' = "done"
                   /\ error' = "none"
                   /\ result' = Reconstruct(impl, edgesMeta, st.g, st.parent, st.parentEdge,
                                            goalIdx)
  /\ UNCHANGED <<appVars, call, impl, progress, shadeData, graphVars, opts, startIdx, goalIdx>>

NextRepeat ==
  \/ BuildGraphNodes
  \/ BuildGraphWay
  \/ BuildGraphShade
  \/ FindRouteStart
  \/ AstarStep
  \/ AstarQueueEmpty
  \/ AstarReturn
  \/ FindRouteAgain

SpecRepeat == InitRepeat /\ [][NextRepeat]_vars

\* ---------------------------------------------------- App: the route query
\* progressSteps of fetchRoute: four steps, none completed
progressSteps == <<FALSE, FALSE, FALSE, FALSE>>

\* the statuses after which findWalkingRoute can throw: the ways request
\* failed, buildGraph threw, findRoute threw
ThrowsAfter == {"GETTING_WAYS_DATA", "BUILDING_GRAPH", "FINDING_ROUTE"}

\* fetchRoute up to its await: the flags, the fresh progress list, and
\* findWalkingRoute up to the ways request, which reports GETTING_WAYS_DATA
\* (its updater copies the list and completes nothing)
fetchRoute(start, end) ==
  /\ isLoadingRoute' = TRUE
  /\ routeError' = "none"
  /\ routeProgress' = progressSteps
  /\ inFlight' = Append(inFlight, [start |-> start, end |-> end, reported |-> 1])

\* handleMapClick: first point, second point and query, or reset
HandleMapClick ==
  /\ ~crashed
  /\ routeError = "none"
  /\ \E p \in Points :
       IF startPoint = NoPoint
         THEN /\ startPoint' = p
              /\ UNCHANGED <<endPoint, displayedRoute, routeError, isLoadingRoute,
                             routeProgress, inFlight>>
       ELSE IF endPoint = NoPoint
         THEN /\ Len(inFlight) < MaxInFlight
              /\ endPoint' = p
              /\ fetchRoute(startPoint, p)
              /\ UNCHANGED <<startPoint, displayedRoute>>
       ELSE /\ startPoint' = p
            /\ endPoint' = NoPoint
            /\ displayedRoute' = NoRoute
            /\ UNCHANGED <<routeError, isLoadingRoute, routeProgress, inFlight>>
  /\ UNCHANGED <<crashed, call, ret, mainVars>>

\* clearRoute, from the control panel
ClearRoute ==
  /\ ~crashed
  /\ routeError = "none"
  /\ startPoint' = NoPoint
  /\ endPoint' = NoPoint
  /\ displayedRoute' = NoRoute
  /\ routeError' = "none"
  /\ UNCHANGED <<isLoadingRoute, routeProgress, inFlight, crashed, call, ret, mainVars>>

\* closeRouteError, from the modal that covers the page while routeError is set
CloseRouteError ==
  /\ ~crashed
  /\ routeError # "none"
  /\ startPoint' = NoPoint
  /\ endPoint' = NoPoint
  /\ displayedRoute' = NoRoute
  /\ routeError' = "none"
  /\ UNCHANGED <<isLoadingRoute, routeProgress, inFlight, crashed, call, ret, mainVars>>

\* the step the updater of onProgress completes for a status, counted from 1;
\* 0 for GETTING_WAYS_DATA, which completes none
stepCompletedBy(status) ==
  (CHOOSE k \in 1..Len(StageOrder) : StageOrder[k] = status) - 1

\* onProgress(status) of the k-th query in flight: newProgress[i].completed = true
\* throws a TypeError when the list has no entry i
OnProgress ==
  /\ ~crashed
  /\ \E k \in 1..Len(inFlight) :
       LET q == inFlight[k]
           status == StageOrder[q.reported + 1]
           step == stepCompletedBy(status)
       IN  /\ q.reported < Len(StageOrder)
           /\ inFlight' = [inFlight EXCEPT ![k].reported = q.reported + 1]
           /\ IF step = 0
                THEN UNCHANGED <<routeProgress, crashed>>
              ELSE IF step > Len(routeProgress)
                THEN crashed' = TRUE /\ UNCHANGED routeProgress
              ELSE /\ routeProgress' = [routeProgress EXCEPT ![step] = TRUE]
                   /\ UNCHANGED crashed
  /\ UNCHANGED <<startPoint, endPoint, displayedRoute, routeError, isLoadingRoute,
                 call, ret, mainVars>>

\* findWalkingRoute resolved: setRoute(routeData), then the finally block
FetchRouteResolved ==
  /\ ~crashed
  /\ \E k \in 1..Len(inFlight) :
       LET q == inFlight[k]
       IN  /\ q.reported = Len(StageOrder)
           /\ displayedRoute' = [start |-> q.start, end |-> q.end]
           /\ inFlight' = RemoveAt(inFlight, k)
  /\ isLoadingRoute' = FALSE
  /\ routeProgress' = <<>>
  /\ UNCHANGED <<startPoint, endPoint, routeError, crashed, call, ret, mainVars>>

\* findWalkingRoute rejected: the catch block, then the finally block
FetchRouteRejected ==
  /\ ~crashed
  /\ \E k \in 1..Len(inFlight) :
       LET q == inFlight[k]
       IN  /\ StageOrder[q.reported] \in ThrowsAfter
           /\ inFlight' = RemoveAt(inFlight, k)
  /\ displayedRoute' = NoRoute
  /\ routeError' = "error"
  /\ isLoadingRoute' = FALSE
  /\ routeProgress' = <<>>
  /\ UNCHANGED <<startPoint, endPoint, crashed, call, ret, mainVars>>

InitApp == Idle /\ call = NoCall /\ ret = NoCall

NextApp ==
  \/ HandleMapClick
  \/ ClearRoute
  \/ CloseRouteError
  \/ OnProgress
  \/ FetchRouteResolved
  \/ FetchRouteRejected

SpecApp == InitApp /\ [][NextApp]_vars

\* ------------------------------------ astar on graphs richer than a query's
\* The while loop of astar, entered on every graph of a family with more
\* nodes and ways than one modelled response holds, from every start node to
\* every goal node (nearestNode of server and client can return any node).
MaxSearchNodes == 6
MaxSearchWays == 6

\* the server generation, whose edge costs differ by length only, runs on
\* MaxSearchNodes nodes, the client generation on MaxNodes
SearchNodes(im) == IF im = "server" THEN 0..(MaxSearchNodes - 1) ELSE NodeIds

\* the ways a response of the family can hold: every pair of the first
\* MaxNodes nodes, and three long streets to the nodes beyond
SearchStreets ==
  {p \in NodeIds \X NodeIds : p[1] < p[2]} \cup {<<0, 5>>, <<1, 4>>, <<4, 5>>}

SearchPairs(im) == {p \in SearchStreets : p[1] \in SearchNodes(im) /\ p[2] \in SearchNodes(im)}

\* two-way ways only; the server generation does not read the highway tag
SearchHighways(im) == IF im = "server" THEN {"residential"} ELSE Highways

\* Phase 4 on the ways S in the order of the response, lowest pair first
RECURSIVE graphOfWays(_, _, _)
graphOfWays(S, highwayOf, gr) ==
  IF S = {} THEN gr
  ELSE LET w == CHOOSE w \in S : \A v \in S : PairRank(w[1], w[2]) <= PairRank(v[1], v[2])
           a == w[1]
           b == w[2]
           length == distance(gr.coords[a], gr.coords[b])
           eid == Len(gr.edgesMeta)
           fwd == [to |-> b, length |-> length, eid |-> eid, highway |-> highwayOf[w]]
           rev == [to |-> a, length |-> length, eid |-> eid, highway |-> highwayOf[w]]
       IN  graphOfWays(S \ {w}, highwayOf,
             [coords |-> gr.coords,
              edgesMeta |-> Append(gr.edgesMeta,
                 [eid |-> eid, a |-> a, b |-> b, length |-> length,
                  highway |-> highwayOf[w], shade |-> 0]),
              adj |-> [gr.adj EXCEPT ![a] = Append(@, fwd), ![b] = Append(@, rev)]])

\* astar has allocated its arrays and pushed the start node
InitSearch ==
  /\ impl \in {"server", "client"}
  /\ pc = "search"
  /\ progress = <<>>
  /\ shadeData = IF impl = "client" THEN "map" ELSE "unset"
  /\ \E S \in SUBSET SearchPairs(impl) :
       /\ Cardinality(S) <= MaxSearchWays
       /\ \E highwayOf \in [S -> SearchHighways(impl)] :
            \E gr \in {graphOfWays(S, highwayOf,
                         [coords |-> [i \in SearchNodes(impl) |-> i],
                          edgesMeta |-> <<>>,
                          adj |-> [i \in SearchNodes(impl) |-> <<>>]])} :
              /\ coords = gr.coords
              /\ edgesMeta = gr.edgesMeta
              /\ adj = gr.adj
  /\ opts \in {o \in [shadePreference : Prefs, pedestrianPathPreference : Prefs] :
                 /\ impl = "server" => o.pedestrianPathPreference = 0
                 /\ impl = "client" => o.shadePreference = 0}
  /\ startIdx \in SearchNodes(impl)
  /\ goalIdx \in SearchNodes(impl)
  /\ \E st \in {searchArrays(coords, startIdx, goalIdx)} :
       /\ g = st.g /\ f = st.f /\ parent = st.parent
       /\ parentEdge = st.parentEdge /\ closed = st.closed /\ heap = st.heap
  /\ result = NoResult
  /\ error = "none"
  /\ call = NoCall
  /\ ret = NoCall
  /\ AppAtRest

NextSearch == AstarStep \/ AstarQueueEmpty \/ AstarReturn

SpecSearch == InitSearch /\ [][NextSearch]_vars

\* ------------------------------------ buildGraph on the node elements
\* Phases 1, 3 and 4 on a response of up to MaxNodeElements node elements and
\* one walkable two-way way.  The node with OSM id i lies at latitude i.
MaxNodeElements == 3

ElementIds == 1..MaxNodeElements

\* Phase 1: nodes.set(el.id, {..., idx: idxCounter++}) for every node element;
\* a second element of the same id replaces the entry of the first
RECURSIVE collectNodes(_, _, _)
collectNodes(elements, nodes, idxCounter) ==
  IF elements = <<>> THEN nodes
  ELSE collectNodes(Tail(elements),
         [id \in DOMAIN nodes \cup {Head(elements)} |->
            IF id = Head(elements) THEN idxCounter ELSE nodes[id]],
         idxCounter + 1)

\* Phase 3: coords = new Array(nodes.size), filled at the idx of every entry
\* whose idx lies inside; an index no entry fills stays undefined (Unset).
\* coords[k] is nodeCoords(nodes)[k + 1], the latitude stored there
nodeCoords(nodes) ==
  [k \in 1..Cardinality(DOMAIN nodes) |->
     IF \E id \in DOMAIN nodes : nodes[id] = k - 1
       THEN CHOOSE id \in DOMAIN nodes : nodes[id] = k - 1
       ELSE Unset]

\* Phase 4 on one way: the pairs of consecutive valid nodes that pass the
\* safety checks and are not of length zero
RECURSIVE wayEdges(_, _, _, _)
wayEdges(nodes, size, valid, i) ==
  IF i >= Len(valid) THEN <<>>
  ELSE LET nodeA == nodes[valid[i]]
           nodeB == nodes[valid[i + 1]]
           rest  == wayEdges(nodes, size, valid, i + 1)
       IN  IF nodeA >= size \/ nodeB >= size \/ nodeA < 0 \/ nodeB < 0 THEN rest
           ELSE IF distance(valid[i], valid[i + 1]) = 0 THEN rest
           ELSE <<[a |-> nodeA, b |-> nodeB]>> \o rest

NodeCalls ==
  [op : {"buildGraphNodes"},
   elements : SeqsUpTo(ElementIds, MaxNodeElements),
   way : {w \in SeqsUpTo(ElementIds, 2) : Len(w) = 2}]

InitNodes == Idle /\ call \in NodeCalls /\ ret = NoCall

BuildGraphIndices ==
  /\ call.op = "buildGraphNodes"
  /\ ret = NoCall
  /\ LET nodes  == collectNodes(call.elements, <<>>, 0)
         coordsA == nodeCoords(nodes)
         valid  == SelectSeq(call.way, LAMBDA id : id \in DOMAIN nodes)
     IN  ret' = [op |-> "buildGraphNodes",
                 nodes |-> nodes,
                 coords |-> coordsA,
                 edgesMeta |-> IF Len(valid) < 2 THEN <<>>
                               ELSE wayEdges(nodes, Len(coordsA), valid, 1)]
  /\ UNCHANGED <<appVars, call, mainVars>>

NextNodes == BuildGraphIndices

SpecNodes == InitNodes /\ [][NextNodes]_vars

\* ======================================================== properties
IsPrefix(s, t) == Len(s) <= Len(t) /\ \A i \in 1..Len(s) : s[i] = t[i]

\* findRoute has been entered (nearestNode ran for start and goal)
FindRouteCalled ==
  \/ pc \in {"search", "reconstruct", "done"}
  \/ pc = "failed" /\ error \in {"NoNearbyNodes", "NoRouteFound"}

\* findRoute ended with both nodes resolved
FindRouteEnded ==
  \/ pc = "done"
  \/ pc = "failed" /\ error = "NoRouteFound"

\* edgeTime of the edge with id eid under the options of the query
EdgeCostById(eid) ==
  edgeTime(impl, edgesMeta,
           [eid |-> eid, length |-> edgesMeta[eid + 1].length,
            highway |-> edgesMeta[eid + 1].highway], opts)

\* total edgeTime of the edges of the returned route
RouteCost == SumSeq([k \in 1..Len(result.edges) |-> EdgeCostById(result.edges[k])])

\* the least edgeTime among the links u -> v
LinkCost(u, v, o) ==
  Min({edgeTime(impl, edgesMeta, adj[u][k], o) : k \in {k \in 1..Len(adj[u]) : adj[u][k].to = v}})

RECURSIVE PathCost(_, _)
PathCost(p, o) ==
  IF Len(p) < 2 THEN 0 ELSE LinkCost(p[1], p[2], o) + PathCost(Tail(p), o)

\* the minimum total edgeTime over the directed start-to-goal paths
MinRouteCost(o) ==
  Min({PathCost(p, o) : p \in SimplePaths(adj, <<startIdx>>, goalIdx, TRUE)})

NoPreference == [shadePreference |-> 0, pedestrianPathPreference |-> 0]

\* sum of length / walkSpeed over the edges of the returned route
RouteBaseTime == SumSeq([k \in 1..Len(result.edges) |-> baseTime(edgesMeta[result.edges[k] + 1].length)])

\* ---------------------------------------------------------------------- C1
\* C1: when the topology fetch succeeded and the shade generation threw,
\* buildGraph still completes with every edge's shade fraction 0 and
\* findWalkingRoute ends with a route or with the no-node / no-route errors
\* only, never with an error caused by the missing shade field.
C1_ShadeFailureDoesNotAbort ==
  (impl = "lib" /\ shadeData = "undefined") =>
     /\ error \in {"none", "NoNearbyNodes", "NoRouteFound"}
     /\ \A k \in 1..Len(edgesMeta) : edgesMeta[k].shade = 0

\* ---------------------------------------------------------------------- C2
\* C2: the statuses delivered to the progress callback are a prefix of
\* GETTING_WAYS_DATA, COMPUTING_SHADE_MAP, BUILDING_GRAPH, FINDING_ROUTE,
\* ROUTE_COMPLETED, and a successful run has reported all five, once each.
C2_ProgressInStageOrder ==
  impl = "lib" =>
     /\ IsPrefix(progress, StageOrder)
     /\ pc = "done" => progress = StageOrder

C2_Witness == impl = "lib" /\ pc = "done" /\ progress = StageOrder

\* ---------------------------------------------------------------------- C3
\* C3: when a stage fails (topology answer not 2xx, no node resolved, no
\* route), the query ends with that error, no result is returned, and no
\* status of a later stage, ROUTE_COMPLETED in particular, is reported.
C3_FailurePropagates ==
  /\ error \in {"OverpassError", "NoNearbyNodes", "NoRouteFound"} =>
       /\ pc = "failed"
       /\ result = NoResult
  /\ impl = "lib" =>
       /\ error = "OverpassError" => progress = SubSeq(StageOrder, 1, 1)
       /\ error \in {"NoNearbyNodes", "NoRouteFound"} => progress = SubSeq(StageOrder, 1, 4)

C3_Witness ==
  /\ impl = "lib" /\ pc = "failed" /\ error = "NoRouteFound"
  /\ progress = SubSeq(StageOrder, 1, 4) /\ result = NoResult

\* ---------------------------------------------------------------------- C4
\* C4: findRoute ends with the no-route error exactly when the graph has no
\* directed path from the resolved start node to the resolved goal node, and
\* returns a route whenever such a path exists.
C4_NoRouteIffNoDirectedPath ==
  FindRouteEnded =>
     /\ (error = "NoRouteFound") <=> ~Reachable(adj, startIdx, goalIdx)
     /\ pc = "done" => result.path # <<>>

\* ---------------------------------------------------------------------- C5
\* no node can be resolved: the graph has no node (lib: no node with a link)
NoCandidate ==
  IF impl = "lib" THEN \A i \in Nodes(coords) : ~hasConnections(adj, i)
  ELSE coords = <<>>

\* C5: when nearestNode returns -1 for the start or the goal, findRoute ends
\* with the invalid-input error before any search is run, and it ends so in
\* no other case.
C5_NoNodeFailsBeforeSearch ==
  FindRouteCalled =>
     /\ (startIdx = -1 \/ goalIdx = -1) <=> NoCandidate
     /\ NoCandidate <=> (error = "NoNearbyNodes")
     /\ NoCandidate =>
          /\ pc = "failed"
          /\ g = <<>> /\ f = <<>> /\ heap = <<>> /\ closed = <<>>
          /\ result = NoResult

C5_Witness ==
  /\ FindRouteCalled /\ NoCandidate /\ coords # <<>>
  /\ error = "NoNearbyNodes" /\ startIdx = -1 /\ heap = <<>>

C7_MinimumTotalEdgeCost ==
  (impl # "lib" /\ pc = "done") => RouteCost = MinRouteCost(opts)

\* the search is optimal as long as no pedestrian-only edge is discounted:
\* with pedestrianPathPreference = 0 the heuristic never exceeds an edge's cost
OptimalWithoutPedestrianPreference ==
  (impl # "lib" /\ pc = "done" /\ opts.pedestrianPathPreference = 0) =>
     RouteCost = MinRouteCost(opts)

\* ---------------------------------------------------------------------- C8
\* nodes 0-1-2-3 in a line, joined by two-way residential edges with shade
\* 0, 1, 0; the query goes from node 0 to node 3 with shadePreference = 1
LineScenario ==
  /\ Nodes(coords) = 0..3 /\ Len(edgesMeta) = 3
  /\ \A k \in 1..3 :
       /\ edgesMeta[k].a = k - 1 /\ edgesMeta[k].b = k
       /\ edgesMeta[k].highway = "residential"
       /\ edgesMeta[k].shade = (IF k = 2 THEN ShadeDen ELSE 0)
  /\ \A k \in 1..3 : Linked(adj, k, k - 1, TRUE)
  /\ startIdx = 0 /\ goalIdx = 3
  /\ opts = [shadePreference |-> PrefDen, pedestrianPathPreference |-> 0]

Joins(eid, u, v) ==
  {edgesMeta[eid + 1].a, edgesMeta[eid + 1].b} = {u, v}

\* C9: the reported distance of a returned route is the sum of the lengths
\* of the edges between consecutive path nodes, one edge for each
\* consecutive node pair.
C9_DistanceIsSumOfPathEdges ==
  pc = "done" =>
     /\ Len(result.edges) = Len(result.path) - 1
     /\ \A k \in 1..Len(result.edges) :
          Joins(result.edges[k], result.path[k], result.path[k + 1])
     /\ result.distance =
          SumSeq([k \in 1..(Len(result.path) - 1) |->
                    distance(coords[result.path[k]], coords[result.path[k + 1]])])

\* ---------------------------------------------------------------------- C10
\* C10 as stated: no edge costs less than length / walkSpeed, whatever the
\* options, and so the base time of a returned route is at most its g-value.
C10_Original ==
  (impl # "lib" /\ FindRouteCalled) =>
     /\ \A k \in 1..Len(edgesMeta) :
          EdgeCostById(k - 1) >= baseTime(edgesMeta[k].length)
     /\ pc = "done" => RouteBaseTime <= result.time_s

\* C10: an edge costs at least (1 - pedestrianPathPreference) * length /
\* walkSpeed, and at least length / walkSpeed when pedestrianPathPreference
\* is 0 or the edge is not a pedestrian-only way; so with
\* pedestrianPathPreference = 0 the base time of a returned route is at most
\* its g-value.
C10_CostLowerBound ==
  (impl # "lib" /\ FindRouteCalled) =>
     /\ \A k \in 1..Len(edgesMeta) :
          /\ EdgeCostById(k - 1) * PrefDen >=
               (PrefDen - opts.pedestrianPathPreference) * baseTime(edgesMeta[k].length)
          /\ (opts.pedestrianPathPreference = 0 \/ ~isPedestrianOnly(edgesMeta[k].highway)) =>
               EdgeCostById(k - 1) >= baseTime(edgesMeta[k].length)
     /\ (pc = "done" /\ opts.pedestrianPathPreference = 0) =>
          RouteBaseTime <= result.time_s

\* a route over a shaded edge with full shade preference: cost equals base time
C10_Witness ==
  /\ impl = "client" /\ pc = "done" /\ result.edges # <<>>
  /\ opts.pedestrianPathPreference > 0
  /\ \E k \in 1..Len(result.edges) :
       /\ isPedestrianOnly(edgesMeta[result.edges[k] + 1].highway)
       /\ EdgeCostById(result.edges[k]) < baseTime(edgesMeta[result.edges[k] + 1].length)

\* ---------------------------------------------------------------------- C11
\* two fractions are equal
RatEq(x, y) == x[1] * y[2] = y[1] * x[2]

\* (length / walkSpeed) * pathTypeMultiplier * shadeMultiplier as the claim
\* words it, times walkSpeed * TimeScale
ClaimedCost(edge, sp, pp) ==
  edge.length
    * (IF edge.highway \in {"footway", "path", "pedestrian", "steps"} THEN PrefDen - pp ELSE PrefDen)
    * (PrefDen * ShadeDen + sp * (ShadeDen - edge.shade))

GivenOrZero(x) == IF x = Unset THEN 0 ELSE x

\* C11 as stated: in every generation the cost of an edge is (length /
\* walkSpeed) * pathTypeMultiplier * shadeMultiplier, with pathTypeMultiplier
\* = 1 - pedestrianPathPreference on footway, path, pedestrian and steps and
\* 1 otherwise, and shadeMultiplier = 1 + shadePreference * (1 - shade).
C11_Original ==
  (ret.op = "astar" /\ call.options.pedestrianPathPreference # Unset) =>
     ret.cost = ClaimedCost(call.edge, GivenOrZero(call.options.shadePreference),
                            call.options.pedestrianPathPreference)

\* C11: in client and lib the cost of an edge is (length / walkSpeed) *
\* pathTypeMultiplier * shadeMultiplier as stated, with the defaults
\* walkSpeed 1.4, shadePreference 0, pedestrianPathPreference 0.2; in server
\* the cost is (length / walkSpeed) * (1 + shadePreference), with no
\* path-type factor, the shade being 0 on every edge, and the defaults
\* walkSpeed 1.4 and shadePreference 0.
C11_EdgeCostFormula ==
  ret.op = "astar" =>
     /\ call.options.walkSpeed = Unset => RatEq(ret.options.walkSpeed, <<14, 10>>)
     /\ call.options.shadePreference = Unset => RatEq(ret.options.shadePreference, <<0, 1>>)
     /\ call.impl # "server" =>
          /\ call.options.pedestrianPathPreference = Unset =>
               RatEq(ret.options.pedestrianPathPreference, <<2, 10>>)
          /\ call.options.pedestrianPathPreference # Unset =>
               ret.cost = ClaimedCost(call.edge, GivenOrZero(call.options.shadePreference),
                                      call.options.pedestrianPathPreference)
     /\ call.impl = "server" =>
          /\ ret.options.pedestrianPathPreference = Unset
          /\ ret.cost = ClaimedCost(call.edge, GivenOrZero(call.options.shadePreference), 0)

\* lib costs a flight of steps under a positive pedestrian preference
C11_Witness ==
  /\ ret.op = "astar" /\ call.impl = "lib" /\ call.edge.highway = "steps"
  /\ call.options.pedestrianPathPreference \in Prefs \ {0}
  /\ call.options.walkSpeed = Unset /\ call.options.shadePreference = Unset
  /\ ret.cost < baseTime(call.edge.length)

\* ------------------------------------------------------------ C12 .. C15
\* the way buildGraph was called on, its unknown node ids dropped
CalledWayNodes ==
  LET known == DOMAIN OsmNodes
      RECURSIVE Keep(_)
      Keep(q) == IF q = <<>> THEN <<>>
                 ELSE IF Head(q) \in known THEN <<Head(q)>> \o Keep(Tail(q))
                 ELSE Keep(Tail(q))
  IN  Keep(call.way.nodes)

\* positions i whose pair (i, i + 1) has two different spots / the same spot
NonZeroPairs ==
  {i \in 1..(Len(CalledWayNodes) - 1) :
     OsmNodes[CalledWayNodes[i]].lat # OsmNodes[CalledWayNodes[i + 1]].lat}

ZeroPairs == (1..(Len(CalledWayNodes) - 1)) \ NonZeroPairs

\* the edge id the i-th pair gets when ids are dealt to non-zero pairs only
ExpectedEid(i) == Cardinality({j \in NonZeroPairs : j < i})

IdxOf(i) == OsmNodes[CalledWayNodes[i]].idx

LinksOf(eid) == {j \in 1..Len(ret.links) : ret.links[j].eid = eid}

LinksBetween(u, v) ==
  {j \in 1..Len(ret.links) : {ret.links[j].from, ret.links[j].to} = {u, v}}

BuildReturned == ret.op = "buildGraph" /\ ret.error = "none"

\* C12: every edge of the returned graph has length > 0; a consecutive pair
\* of length 0 gives no edge in either direction and uses up no edge id.
C12_NoZeroLengthEdge ==
  BuildReturned =>
     /\ \A k \in 1..Len(ret.edgesMeta) : ret.edgesMeta[k].length > 0
     /\ \A j \in 1..Len(ret.links) : ret.links[j].length > 0
     /\ \A i \in ZeroPairs : LinksBetween(IdxOf(i), IdxOf(i + 1)) = {}
     /\ \A k \in 1..Len(ret.edgesMeta) : ret.edgesMeta[k].eid = k - 1
     /\ Len(ret.edgesMeta) \in {0, Cardinality(NonZeroPairs)}

\* a pair of length 0 comes first and the next pair gets edge id 0
C12_Witness ==
  /\ BuildReturned /\ 1 \in ZeroPairs /\ 2 \in NonZeroPairs
  /\ Len(ret.edgesMeta) = 1 /\ ret.edgesMeta[1].eid = 0
  /\ ret.edgesMeta[1].a = IdxOf(2)

WalkableWith(tags, allowed) ==
  /\ tags.highway # Absent
  /\ ~(tags.access \in {"private", "no"} /\ tags.foot # "yes")
  /\ tags.foot # "no"
  /\ tags.highway \in allowed

ClaimedHighways ==
  {"footway", "path", "pedestrian", "steps", "cycleway", "residential",
   "living_street", "service", "track", "primary", "secondary", "tertiary",
   "primary_link", "secondary_link", "tertiary_link"}

\* C14 as stated: a way gives edges exactly when it has a highway tag, is
\* not foot-inaccessible, and its highway value is one of footway, path,
\* pedestrian, steps, cycleway, residential, living_street, service, track,
\* primary, secondary, tertiary and the three _link values.
C14_Original ==
  BuildReturned =>
     (ret.edgesMeta # <<>> <=>
        (WalkableWith(call.way.tags, ClaimedHighways) /\ NonZeroPairs # {}))

\* C14: the same with unclassified added to the allow-list: a way that
\* fails the predicate gives no edge, a way that meets it gives an edge for
\* every pair of non-zero length.
C14_WalkableWays ==
  BuildReturned =>
     (ret.edgesMeta # <<>> <=>
        (WalkableWith(call.way.tags, ClaimedHighways \cup {"unclassified"})
           /\ NonZeroPairs # {}))

\* an access = private way that foot = yes opens again
C14_Witness ==
  /\ BuildReturned /\ ret.edgesMeta # <<>>
  /\ call.way.tags.access = "private" /\ call.way.tags.foot = "yes"

\* C15: buildGraph called without a shade field (shadeData null) returns a
\* graph, and every edge of it has shade fraction exactly 0.
C15_NoShadeFieldMeansShadeZero ==
  (ret.op = "buildGraph" /\ call.shadeData = "null") =>
     /\ ret.error = "none"
     /\ \A eid \in DOMAIN ret.shadeByEdgeId : ret.shadeByEdgeId[eid] = 0

\* ------------------------------------------------------------ C16, C17
\* the pixels of the raster that cover the point asked of sampleAt: column x
\* spans one width-th of the box from the west, row y one height-th from the north
CoveringPixels ==
  LET sf == call.shadeData
      ew == sf.bounds.east - sf.bounds.west
      ns == sf.bounds.north - sf.bounds.south
  IN  {p \in (0 .. sf.image.width - 1) \X (0 .. sf.image.height - 1) :
         /\ 2 * p[1] * ew <= (call.lon - 2 * sf.bounds.west) * sf.image.width
         /\ (call.lon - 2 * sf.bounds.west) * sf.image.width < 2 * (p[1] + 1) * ew
         /\ 2 * p[2] * ns <= (2 * sf.bounds.north - call.lat) * sf.image.height
         /\ (2 * sf.bounds.north - call.lat) * sf.image.height < 2 * (p[2] + 1) * ns}

ColourSum(sf, p) ==
  LET k == (p[2] * sf.image.width + p[1]) * 4
  IN  sf.image.pixels[k] + sf.image.pixels[k + 1] + sf.image.pixels[k + 2]

CalledInterval ==
  IF call.sampleIntervalMeters = Unset THEN 5 ELSE call.sampleIntervalMeters

\* max(1, ceil(length / interval)) of the line sampleAlongLine was called with
ClaimedSamples ==
  LET d2 == distanceSq(call.latA, call.lonA, call.latB, call.lonB)
      iv == CalledInterval
  IN  CHOOSE n \in 1 .. 30 :
        /\ n * iv * n * iv >= d2
        /\ n = 1 \/ (n - 1) * iv * (n - 1) * iv < d2

\* the number of samples taken is the claimed one
C17_SampleCount == ret.op = "sampleAlongLine" => ret.taken = ClaimedSamples

\* the samples that fell on the raster are the valid ones: the result is the
\* shaded ones among them over their number, and 0 when there is none
C17_ShadedOverValid ==
  ret.op = "sampleAlongLine" =>
    LET valid == Len(ret.history)
    IN  IF valid = 0 THEN ret.value[1] = 0
        ELSE ret.value[1] * valid = ret.shadeSum * ret.value[2]

\* the result lies in [0, 1]
C17_InUnitInterval ==
  ret.op = "sampleAlongLine" =>
    ret.value[2] > 0 /\ 0 <= ret.value[1] /\ ret.value[1] <= ret.value[2]

\* what the loop does: one sample more than the claimed number, every one of
\* them counted as valid
C17_OneMoreAllCounted ==
  ret.op = "sampleAlongLine" =>
    /\ ret.taken = ClaimedSamples + 1
    /\ ret.validSamples = ret.taken
    /\ ret.value = <<ret.shadeSum, ret.taken>>

\* C17: sampleAlongLine takes exactly max(1, ceil(length / intervalMeters))
\* samples, returns the shaded samples over the valid ones, returns 0 when no
\* sample is valid, and its result is always in [0,1].
C17_SamplesAlongLine == C17_SampleCount /\ C17_ShadedOverValid /\ C17_InUnitInterval

\* ------------------------------------------------------------ C18 .. C20
AnalysisReturned == ret.op = "computeSegmentsAndStats"

GroupingReturned == ret.op = "createGroupedPaths"

\* the consecutive coordinate pairs of the route handed over, in route order
RoutePairs ==
  [i \in 1..(Len(call.route.coordinates) - 1) |->
     <<call.route.coordinates[i], call.route.coordinates[i + 1]>>]

Occurrences(seq, x) == Cardinality({k \in 1..Len(seq) : seq[k] = x})

\* C18: the segment between coordinates i-1 and i is classified shaded iff the
\* shade of the route edge joining the two coordinates is > 0, sunny
\* otherwise, and every consecutive pair is classified exactly once.
C18_ShadedIffJoiningEdgeShaded ==
  (AnalysisReturned /\ call.legs # <<>>) =>
    \A i \in 1..Len(call.legs) :
      /\ Occurrences(ret.shadedSegments, RoutePairs[i])
           = (IF call.legs[i].shade > 0 THEN 1 ELSE 0)
      /\ Occurrences(ret.sunnySegments, RoutePairs[i])
           = (IF call.legs[i].shade > 0 THEN 0 ELSE 1)

\* every pair is classified exactly once, by the entry of route.shade at its index
C18_ClassifiedByShadeEntry ==
  (AnalysisReturned /\ call.legs # <<>>) =>
    \A i \in 1..Len(call.legs) :
      LET above == i <= Len(call.route.shade) /\ call.route.shade[i] > 0
      IN  /\ Occurrences(ret.shadedSegments, RoutePairs[i]) = (IF above THEN 1 ELSE 0)
          /\ Occurrences(ret.sunnySegments, RoutePairs[i]) = (IF above THEN 0 ELSE 1)

\* where every pair of the path has its link, the claim of C18 holds
C18_HoldsWhereLinked ==
  (AnalysisReturned /\ \A i \in 1..Len(call.legs) : call.legs[i].link) =>
    C18_ShadedIffJoiningEdgeShaded

\* the class of leg i of the route handed over
LegClass(i) == call.legs[i].shade > 0

\* the maximal runs of legs of one class, as pairs <<first leg, last leg>>
MaximalRuns ==
  {r \in (1..Len(call.legs)) \X (1..Len(call.legs)) :
     /\ r[1] <= r[2]
     /\ \A i \in r[1]..r[2] : LegClass(i) = LegClass(r[1])
     /\ r[1] = 1 \/ LegClass(r[1] - 1) # LegClass(r[1])
     /\ r[2] = Len(call.legs) \/ LegClass(r[2] + 1) # LegClass(r[2])}

\* the coordinates of the route from the start of leg a to the end of leg b
Stretch(a, b) == SubSeq(pathCoordinates(call.legs), a, b + 1)

\* the polylines put out, of either class
OutputLines ==
  IF AnalysisReturned THEN Range(ret.shadedSegments) \cup Range(ret.sunnySegments)
  ELSE Range(ret.shadyPaths) \cup Range(ret.sunnyPaths)

\* the output is one polyline for each maximal run, and nothing else
GroupedIntoRuns ==
  /\ OutputLines = {Stretch(r[1], r[2]) : r \in MaximalRuns}
  /\ IF AnalysisReturned
       THEN Len(ret.shadedSegments) + Len(ret.sunnySegments) = Cardinality(MaximalRuns)
       ELSE Len(ret.shadyPaths) + Len(ret.sunnyPaths) = Cardinality(MaximalRuns)

AllSunny == \A i \in 1..Len(call.legs) : call.legs[i].shade = 0

\* C19 as stated: the post-processor puts out one polyline for each maximal run
\* of same-class segments; a route whose edges all have shade 0 yields exactly
\* one sunny segment spanning the whole route and no shaded one.
C19_Original ==
  ((AnalysisReturned \/ GroupingReturned) /\ call.legs # <<>>) =>
    /\ GroupedIntoRuns
    /\ AllSunny =>
         IF AnalysisReturned
           THEN /\ ret.sunnySegments = <<pathCoordinates(call.legs)>>
                /\ ret.shadedSegments = <<>>
           ELSE /\ ret.sunnyPaths = <<pathCoordinates(call.legs)>>
                /\ ret.shadyPaths = <<>>

\* C19: createGroupedPaths of the client puts out one polyline for each maximal
\* run of same-class sections, so a route that is sunny throughout yields one
\* sunny path spanning it and no shady one; computeSegmentsAndStats does not
\* group: it puts out one two-point segment for each consecutive pair, so a
\* route of n coordinates whose edges all have shade 0 yields n - 1 sunny
\* segments and no shaded one.
C19_GroupedInClientOnly ==
  /\ (GroupingReturned /\ call.legs # <<>>) =>
       /\ GroupedIntoRuns
       /\ AllSunny => /\ ret.sunnyPaths = <<pathCoordinates(call.legs)>>
                      /\ ret.shadyPaths = <<>>
  /\ (AnalysisReturned /\ call.legs # <<>>) =>
       /\ \A k \in 1..Len(ret.shadedSegments) : Len(ret.shadedSegments[k]) = 2
       /\ \A k \in 1..Len(ret.sunnySegments) : Len(ret.sunnySegments[k]) = 2
       /\ Len(ret.shadedSegments) + Len(ret.sunnySegments) = Len(call.legs)
       /\ AllSunny => /\ ret.sunnySegments = RoutePairs
                      /\ ret.shadedSegments = <<>>

\* the client joins a shady run of two sections between two sunny ones
C19_Witness ==
  /\ GroupingReturned
  /\ Len(call.legs) = MaxLegs
  /\ LegClass(1) /\ LegClass(2) /\ ~LegClass(3)
  /\ Len(ret.shadyPaths) = 1
  /\ Len(ret.shadyPaths[1]) = 3

\* the distances of the route handed over, in half metres
TrueTotal == SumSeq([i \in 1..Len(call.legs) |-> call.legs[i].length])

TrueShaded ==
  SumSeq([i \in 1..Len(call.legs) |->
            IF shadeAbove0(call.route, i) THEN call.legs[i].length ELSE 0])

\* p is n / dn rounded to the nearest integer, a half going up (dn > 0)
Nearest(p, n, dn) == (2 * p - 1) * dn <= 2 * n /\ 2 * n < (2 * p + 1) * dn

PercentagesAsShares ==
  IF TrueTotal = 0
    THEN ret.stats.shadedPercentage = 0 /\ ret.stats.sunnyPercentage = 0
    ELSE /\ Nearest(ret.stats.shadedPercentage, 100 * TrueShaded, TrueTotal)
         /\ Nearest(ret.stats.sunnyPercentage, 100 * (TrueTotal - TrueShaded), TrueTotal)

\* C20 as stated: in the statistics, sunny distance = total distance - shaded
\* distance; the percentages are the shares of the total rounded to the
\* nearest integer, and both are 0 when the total distance is 0.
C20_Original ==
  AnalysisReturned =>
    /\ ret.stats.sunnyDistance = ret.stats.totalDistance - ret.stats.shadedDistance
    /\ PercentagesAsShares

\* C20: the sunny distance is total - shaded before any rounding; the three
\* distances of the statistics are each rounded to whole metres on their own, so
\* the sunny one is within one metre of the total less the shaded one; the
\* percentages are the shares of the unrounded total rounded to the nearest
\* integer, and both are 0 when the total is 0.
C20_RoundedEachOnItsOwn ==
  AnalysisReturned =>
    /\ Nearest(ret.stats.totalDistance, TrueTotal, 2)
    /\ Nearest(ret.stats.shadedDistance, TrueShaded, 2)
    /\ Nearest(ret.stats.sunnyDistance, TrueTotal - TrueShaded, 2)
    /\ Abs(ret.stats.sunnyDistance
             - (ret.stats.totalDistance - ret.stats.shadedDistance)) <= 1
    /\ PercentagesAsShares

\* half a metre of shade and half a metre of sun: 1 m, 1 m and 1 m, 50 % each
C20_Witness ==
  /\ AnalysisReturned
  /\ TrueTotal = 2 /\ TrueShaded = 1
  /\ ret.stats.totalDistance = 1 /\ ret.stats.shadedDistance = 1
  /\ ret.stats.sunnyDistance = 1
  /\ ret.stats.shadedPercentage = 50 /\ ret.stats.sunnyPercentage = 50

\* ---------------------------------------------------------------------- C21
\* the second call has ended
SecondCallEnded == ret.op = "findRoute" /\ pc \in {"done", "failed"}

\* the second call gives what the first gave
SameResultTwice == SecondCallEnded => (result = ret.result /\ error = ret.error)

\* once built, the graph is never written: not by a call, not between calls
GraphUntouched == pc \notin {"build", "ways"} => UNCHANGED graphVars

CompletedIsPrefix ==
  \A i \in 1..Len(routeProgress), j \in 1..Len(routeProgress) :
    (i < j /\ routeProgress[j]) => routeProgress[i]

\* a query starts in this step
QueryStarts == Len(inFlight') > Len(inFlight)

\* a query ends in this step, by a route or by an error
QueryEnds == Len(inFlight') < Len(inFlight)

\* C22: the progress list is set to all-incomplete when a query starts, its
\* completed steps are at every moment a prefix of the list, and the list is
\* emptied when the query ends, by success or by failure.
C22_ProgressListLifecycle ==
  /\ []CompletedIsPrefix
  /\ [][(QueryStarts => routeProgress' = progressSteps)
        /\ (QueryEnds => routeProgress' = <<>>)]_vars

\* C29: whenever the route state is non-null, start and end point are both
\* set and the route is the result of the query issued for that very pair.
C29_NoStaleRoute ==
  displayedRoute # NoRoute =>
    /\ startPoint # NoPoint /\ endPoint # NoPoint
    /\ displayedRoute = [start |-> startPoint, end |-> endPoint]

\* C30: for as long as a query is in flight the loading flag is true and the
\* four-entry progress list is populated, so that every progress callback
\* finds the step it completes.
C30_ProgressKeptWhileInFlight ==
  /\ inFlight # <<>> => (isLoadingRoute /\ Len(routeProgress) = Len(progressSteps))
  /\ ~crashed

\* ---------------------------------------------------------------------- C23
\* the graph is read only in every generation, lib included
GraphReadOnly == [][GraphUntouched]_vars

\* a link from u to v carries the edge id eid
LeadsFromTo(eid, u, v) == \E k \in 1..Len(adj[u]) : adj[u][k].to = v /\ adj[u][k].eid = eid

\* edges and shade have one entry for each consecutive pair of path nodes, the
\* id and the shade of an edge leading from the one node to the next, and the
\* path runs from the resolved start node to the resolved goal node
Aligned ==
  /\ Len(result.path) >= 1
  /\ Len(result.edges) = Len(result.path) - 1
  /\ Len(result.shade) = Len(result.path) - 1
  /\ \A k \in 1..(Len(result.path) - 1) :
       /\ k <= Len(result.edges)
       /\ LeadsFromTo(result.edges[k], result.path[k], result.path[k + 1])
       /\ k <= Len(result.shade)
       /\ result.shade[k] = shadeOf(edgesMeta, result.edges[k])
  /\ result.path[1] = startIdx
  /\ result.path[Len(result.path)] = goalIdx

\* C23: every route findRoute returns is aligned: with n coordinates the
\* edges and the shade sequence have n - 1 entries, entry i being the id and
\* the shade of the graph edge from path node i to path node i+1; the first
\* coordinate is the resolved start node and the last the resolved goal node.
C23_RouteResultAligned == (pc = "done" /\ impl = "lib") => Aligned

\* the route the client generation returns is aligned
C23_AlignedInClient == (pc = "done" /\ impl = "client") => Aligned

\* --------------------------------------------------------------------- C24
Unclosed == Cardinality({n \in DOMAIN closed : ~closed[n]})

NewlyClosed == {n \in DOMAIN closed : ~closed[n] /\ closed'[n]}

\* following parent from n arrives at the start node within fuel steps
RECURSIVE ReachesStart(_, _)
ReachesStart(n, fuel) ==
  IF n = startIdx THEN TRUE
  ELSE IF fuel = 0 \/ parent[n] = -1 THEN FALSE
  ELSE ReachesStart(parent[n], fuel - 1)

\* no cycle among the parent links: the start node has no parent, and from
\* every node that has one the chain arrives at the start node
ParentChainAcyclic ==
  /\ parent[startIdx] = -1
  /\ \A n \in DOMAIN parent :
       parent[n] # -1 => ReachesStart(n, Cardinality(DOMAIN parent))

\* a pop takes exactly one entry out of the queue
PopTakesOneEntry ==
  \A p \in HeapPop(impl, heap, f) :
    /\ Len(p.heap) = Len(heap) - 1
    /\ \E k \in 1..Len(heap) : heap[k] = p.current

\* while the goal is not reached no entry for it waits in the queue unseen:
\* the queue is empty only if the goal was never given a finite g
SearchInv ==
  pc = "search" =>
    /\ ParentChainAcyclic
    /\ heap # <<>> => PopTakesOneEntry
    /\ heap = <<>> => g[goalIdx] >= Infinity
    /\ \A n \in DOMAIN closed : closed[n] => g[n] < Infinity

\* one iteration of the loop
SearchStep ==
  pc = "search" =>
    \* a node is closed at most once, one node per iteration at most
    /\ \A n \in DOMAIN closed : closed[n] => closed'[n]
    /\ Cardinality(NewlyClosed) <= 1
    \* an iteration that closes nothing popped the goal or a stale entry:
    \* it changes no array
    /\ NewlyClosed = {} => UNCHANGED <<g, f, parent, parentEdge>>
    \* the loop goes on only after a pop, and then the pair
    \* (nodes not closed, queue length) has dropped in lexicographic order
    /\ pc' = "search" =>
         /\ heap # <<>>
         /\ \/ Unclosed' < Unclosed
            \/ Unclosed' = Unclosed /\ Len(heap') < Len(heap)
    \* the loop is left when the queue is empty, or when the goal is popped
    /\ pc' = "reconstruct" =>
         \/ heap = <<>> /\ UNCHANGED searchVars
         \/ /\ \E k \in 1..Len(heap) : heap[k] = goalIdx
            /\ Len(heap') = Len(heap) - 1
            /\ g[goalIdx] < Infinity
            /\ NewlyClosed = {}
    /\ pc' \in {"search", "reconstruct"}

\* after the loop: a route if the goal was reached, no route otherwise
SearchOutcome ==
  pc = "reconstruct" =>
    /\ UNCHANGED searchVars
    /\ IF g[goalIdx] < Infinity
         THEN pc' = "done" /\ result'.path[1] = startIdx
              /\ result'.path[Len(result'.path)] = goalIdx
         ELSE pc' = "failed" /\ error' = "NoRouteFound"

\* C24: the A* loop of client and server terminates on every finite graph.
\* Every iteration pops one entry; a node is closed at most once and expanded
\* only when it is closed; a popped entry of a closed node changes nothing;
\* each iteration lowers the pair (number of nodes not closed, queue length),
\* so the loop ends after finitely many iterations; it ends with a route
\* exactly when the goal was popped and with no route when the queue ran
\* empty; the parent links never form a cycle.
C24_SearchTerminates ==
  /\ []SearchInv
  /\ [][SearchStep /\ SearchOutcome]_vars

\* a search in which the duplicate entry of a closed node waits in the queue
C24_Witness ==
  /\ pc = "search"
  /\ \E k \in 1..Len(heap) : closed[heap[k]]
  /\ Cardinality({n \in DOMAIN closed : closed[n]}) >= 2

\* --------------------------------------------------------------------- C25
\* the least total edge cost of a directed path from n to the goal
CostToGoal(n, o) ==
  IF n = goalIdx THEN 0
  ELSE Min({PathCost(p, o) : p \in SimplePaths(adj, <<n>>, goalIdx, TRUE)})

\* h never exceeds the cheapest remaining cost
Admissible ==
  \A n \in Nodes(coords) :
    Reachable(adj, n, goalIdx) => heuristic(coords, n, goalIdx) <= CostToGoal(n, opts)

\* h(u) <= cost(u, v) + h(v) on every link, and h(goal) = 0
Consistent ==
  /\ heuristic(coords, goalIdx, goalIdx) = 0
  /\ \A u \in Nodes(coords) : \A k \in 1..Len(adj[u]) :
       heuristic(coords, u, goalIdx)
         <= edgeTime(impl, edgesMeta, adj[u][k], opts) + heuristic(coords, adj[u][k].to, goalIdx)

\* C25: in every query of the client and lib generations, for every shadePreference
\* and pedestrianPathPreference in [0, 1], the heuristic
\* h(n) = distance(n, goal) / walkSpeed is admissible and consistent for the
\* edge costs the search uses.
C25_HeuristicAdmissibleConsistent ==
  (impl \in {"client", "lib"} /\ startIdx # -1 /\ goalIdx # -1) => (Admissible /\ Consistent)

\* the same without a preference for pedestrian ways, in all three generations
C25_HoldsWithoutPedestrianPreference ==
  (startIdx # -1 /\ goalIdx # -1 /\ opts.pedestrianPathPreference = 0)
    => (Admissible /\ Consistent)

\* --------------------------------------------------------------------- C26
NodesReturned == ret.op = "buildGraphNodes"

\* position of the first node element with this id
FirstSeen(id) == Min({k \in 1..Len(call.elements) : call.elements[k] = id})

DistinctIds == {call.elements[k] : k \in 1..Len(call.elements)}

HasCoordinate(idx) == idx + 1 \in DOMAIN ret.coords /\ ret.coords[idx + 1] # Unset

DenseFirstSeen ==
  /\ DOMAIN ret.nodes = DistinctIds
  /\ {ret.nodes[id] : id \in DOMAIN ret.nodes} = 0..(Cardinality(DistinctIds) - 1)
  /\ \A id1, id2 \in DistinctIds :
       FirstSeen(id1) < FirstSeen(id2) => ret.nodes[id1] < ret.nodes[id2]
  /\ Len(ret.coords) = Cardinality(DistinctIds)
  /\ \A idx \in 0..(Cardinality(DistinctIds) - 1) : HasCoordinate(idx)

EndpointsHaveCoordinates ==
  \A k \in 1..Len(ret.edgesMeta) :
    HasCoordinate(ret.edgesMeta[k].a) /\ HasCoordinate(ret.edgesMeta[k].b)

\* C26: for every element list, one with the same node id in more than one
\* node element included, buildGraph gives the N distinct node ids the
\* indices 0..N-1 in first-seen order, every index has a coordinate entry,
\* and every edge endpoint is an index that has a coordinate.
C26_DenseIndices ==
  NodesReturned => (DenseFirstSeen /\ EndpointsHaveCoordinates)

\* the same for element lists in which no node id occurs twice
C26_DenseWithoutDuplicates ==
  (NodesReturned /\ Cardinality(DistinctIds) = Len(call.elements))
    => (DenseFirstSeen /\ EndpointsHaveCoordinates)

\* with or without duplicates no edge ends at an index without a coordinate
C26_EdgesEndAtCoordinates == NodesReturned => EndpointsHaveCoordinates

\* --------------------------------------------------------------------- C27
\* C27: in the A* search of server and client every pop returns a queue entry
\* whose current f is least among all entries in the queue at that moment,
\* although f of a node is lowered in place while older entries of the node
\* are still in the queue.
C27_PopReturnsLeast ==
  (pc = "search" /\ heap # <<>>) =>
    \A p \in HeapPop(impl, heap, f) :
      \A k \in 1..Len(heap) : f[p.current] <= f[heap[k]]

\* the same while no node has two entries in the queue
C27_LeastWithoutDuplicates ==
  (pc = "search" /\ heap # <<>>
     /\ (\A i, j \in 1..Len(heap) : heap[i] = heap[j] => i = j)
     /\ (\A n \in 1..Len(heap) : ~closed[heap[n]])) =>
    \A p \in HeapPop(impl, heap, f) :
      \A k \in 1..Len(heap) : f[p.current] <= f[heap[k]]

\* --------------------------------------------------------------------- C28
PercentagesReturned == ret.op = "calculateShadePercentages"

\* C28: whenever the total distance of the route is above 0, the shaded and
\* the sunny percentage that computeSegmentsAndStats reports add up to
\* exactly 100.
C28_PercentagesSumTo100 ==
  (AnalysisReturned /\ TrueTotal > 0) =>
    ret.stats.shadedPercentage + ret.stats.sunnyPercentage = 100

\* C28, client: the two percentages of calculateShadePercentages, in tenths
\* of a percent, add up to 100.0
C28_ClientPercentagesSumTo100 ==
  (PercentagesReturned /\ TrueTotal > 0) => ret.shadePercentage + ret.sunPercentage = 1000

\* how far off the sum can be: one unit of the last digit, upwards
C28_SumAtMostOneOver ==
  /\ (AnalysisReturned /\ TrueTotal > 0) =>
       ret.stats.shadedPercentage + ret.stats.sunnyPercentage \in {100, 101}
  /\ (PercentagesReturned /\ TrueTotal > 0) =>
       ret.shadePercentage + ret.sunPercentage \in {1000, 1001}

====
